---- MODULE Spec2Model ----
(***************************************************************************)
(* Backend-client layer of the Vue language server (tsBackend.ts):          *)
(*   - TsServerBackendClient         (bridged compiler-protocol transport)  *)
(*   - TsServerProcessBackendClient  (spawned compiler-protocol transport)  *)
(*   - TsgoLspBackendClient          (sidecar transport with fallback)      *)
(*   - createTsBackendClient         (backend selector)                     *)
(* Every action is one macro-task of the event loop: a call up to its first *)
(* wait for I/O, an event handler, or the continuation of a resolved wait.  *)
(***************************************************************************)
EXTENDS Naturals, Sequences, FiniteSets

\* ---------------------------------------------------------------- bounds
MaxTasks == 2
MaxDispose == 2
MaxVersion == 2
MaxCrashes == 1
\* late responses counted
MaxLate == 1
MaxWaiters == 1
\* highest version of a document the sidecar does not take
MaxOtherVersion == 1

\* ensureTsBackendWarmup is called from onInitialize's timer and from onInitialized
MaxWarmCalls == 2
\* attempts of primeOpenDocuments before its deadline has passed
MaxAttempts == 2
\* directories between the root and a file
MaxDepth == 2
\* length of the texts whose offsets are converted
MaxLineText == 3
WarmCallers == 1..MaxWarmCalls
Tasks == 1..MaxTasks
Disposers == 1..MaxDispose
Waiters == 1..MaxWaiters
\* every request call registers at most two identifiers (sync + command),
\* every dispose at most one (close-all)
MaxId == 2 * MaxTasks + MaxDispose
Ids == 1..MaxId
\* a file is its URI scheme and its name split at the dots
FileTs == [scheme |-> "file", name |-> <<"a", "ts">>]
FileVue == [scheme |-> "file", name |-> <<"b", "vue">>]
Files == {FileTs, FileVue}
FileSeq == <<FileTs, FileVue>>
NoFile == [scheme |-> "", name |-> <<>>]
\* the tsserver clients are exercised on one file
TsFiles == {FileTs}

\* ---------------------------------------------------------------- values
None == [k |-> "none", of |-> 0]
Null == [k |-> "null", of |-> 0]
Undef == [k |-> "undef", of |-> 0]
Rejected == [k |-> "rejected", of |-> 0]
\* the body of the backend's response to request i
Body(i) == [k |-> "body", of |-> i]

NoMsg == [cmd |-> "none", file |-> NoFile, ver |-> 0, proc |-> 0]
\* a hover answer: null, markdown without a fenced block (text), or markdown
\* whose first fenced block holds text
NullHover == [k |-> "null", text |-> <<>>]
IdleTask == [pc |-> "idle", method |-> "", file |-> NoFile, upd |-> "none", cv |-> 0,
             id |-> 0, fb |-> 0, ans |-> "none", gave |-> "",
             result |-> None]
IdleDisp == [pc |-> "idle", id |-> 0]
\* the probe of the sidecar executable was not run
NotRun == [threw |-> FALSE, error |-> FALSE, signal |-> FALSE, status |-> "notRun"]
NoStartup ==
    [created |-> FALSE, preference |-> "", probe |-> NotRun, probeRuns |-> 0,
     mode |-> "", tsserverFallback |-> "none", serverInfo |-> <<>>, down |-> {}]
IdleWaiter == [pc |-> "idle", tmo |-> 0, result |-> "none", n |-> 0]
\* nobody has asked for the warmup
IdleWarm ==
    [task |-> "none", got |-> [c \in WarmCallers |-> 0], runs |-> 0, warmups |-> 0,
     primes |-> 0, attempts |-> 0, pc |-> "idle", outcome |-> "none", srv |-> "idle",
     probe |-> [f \in Files |-> "none"]]

VARIABLES
    kind,                   \* "bridge" | "process" | "tsgo": the client class
    requestId,              \* this.requestId
    requestHandlers,        \* keys of this.requestHandlers
    timers,                 \* identifiers whose setTimeout is armed
    listening,              \* bridge: the tsserver/response listener is attached
    disposed,               \* this.disposed (process client, sidecar client)
    openDocumentVersions,   \* file -> recorded version, 0 = no record
    tsserverProcess,        \* this.tsserverProcess: incarnation, 0 = undefined
    startPromise,           \* this.startPromise is set
    alive,                  \* child processes forked and not yet exited
    connected,              \* child processes whose IPC channel is connected
    forks,                  \* number of processes forked so far
    crashes,                \* number of unexpected exits so far
    sent,                   \* identifier -> what was written (history)
    delivered,              \* identifier -> number of calls of its resolve callback
    lateResponses,          \* responses that found no pending entry (history,
                            \* counted up to MaxLate)
    documents,              \* host: file -> open version, 0 = not open
    killed,                 \* child processes kill() was called on
    task,                   \* request calls
    disp,                   \* dispose calls
    \* TsgoLspBackendClient
    tsgoProcess,            \* this.tsgoProcess is set
    tsgoRunning,            \* a sidecar process is running
    tsgoSpawns,             \* number of sidecar processes spawned
    connectionToTsgo,       \* this.connectionToTsgo is set
    initPromise,            \* "none" | "pending" | "resolved" | "rejected"
    handshake,              \* the initialized notification has been written
    listeners,              \* the document listeners are attached
    hoverReady,             \* this.hoverReady
    hoverReadyWaiters,      \* this.hoverReadyWaiters
    waiterTimers,           \* waiters whose setTimeout is armed
    waiter,                 \* awaitReadyForHover calls: idle, waiting (registered),
                            \* returned (without registering), finished (by finish())
    fallbackDisposals,      \* number of calls of fallback.dispose()
    goOut,                  \* messages written to the sidecar by the last step
    warm,                   \* the warmup task of startServer and warmup() of the client
    \* startServer
    startup                 \* what createTsBackendClient was given and returned,
                            \* the serverInfo name of the initialize result, and the
                            \* shutdown handlers that have called server.shutdown()

tsVars == <<kind, requestId, requestHandlers, timers, listening, disposed,
            openDocumentVersions, tsserverProcess, startPromise, alive, connected,
            forks, crashes, killed, sent, delivered, lateResponses, documents, task,
            disp>>

goVars == <<tsgoProcess, tsgoRunning, tsgoSpawns, connectionToTsgo, initPromise, handshake,
            listeners, hoverReady, hoverReadyWaiters, waiterTimers, waiter,
            fallbackDisposals, goOut, warm>>

\* the fields only the tsserver clients have
tsOnly == <<requestId, requestHandlers, timers, listening, tsserverProcess, startPromise,
            alive, connected, forks, crashes, killed, sent, delivered, lateResponses>>

vars == <<tsVars, goVars, startup>>

\* ---------------------------------------------------------------- helpers
Deliver(S) ==
    [i \in Ids |-> IF i \in S THEN delivered[i] + 1 ELSE delivered[i]]

\* continuations of the callers whose wait was resolved with v
WakeTasks(S, v) ==
    [t \in Tasks |->
        IF task[t].pc = "awaitSync" /\ task[t].id \in S
        THEN [task[t] EXCEPT !.pc = "syncDone"]
        ELSE IF task[t].pc = "awaitReq" /\ task[t].id \in S
        THEN [task[t] EXCEPT !.pc = "done", !.result = v]
        ELSE task[t]]

WakeDisp(S) ==
    [d \in Disposers |->
        IF disp[d].pc = "awaitClose" /\ disp[d].id \in S
        THEN [disp[d] EXCEPT !.pc = "closeDone"]
        ELSE disp[d]]

\* calls are issued in slot order (the slots are interchangeable)
NextTask(t) == task[t].pc = "idle" /\ \A u \in Tasks : u < t => task[u].pc # "idle"
NextDisp(d) == disp[d].pc = "idle" /\ \A e \in Disposers : e < d => disp[e].pc # "idle"

\* requestHandlers.get(id): the pending entry a response with this id resolves
LookupPendingFirst(id) ==
    IF requestHandlers = {} THEN 0
    ELSE CHOOSE i \in requestHandlers : \A j \in requestHandlers : i <= j
LookupPending(id) ==
    IF id \in requestHandlers THEN id ELSE 0

\* clearTimeout(pending.timer) when an entry is resolved by something other
\* than its own timer
KeepTimers(S) == timers
ClearTimers(S) == timers \ S

\* ------------------------------------------------- host documents
\* server.documents: the host opens, edits and closes documents
HostOpen(f, v) ==
    /\ documents[f] = 0
    /\ documents' = [documents EXCEPT ![f] = v]

HostChange(f) ==
    /\ documents[f] # 0
    /\ documents[f] < MaxVersion
    /\ documents' = [documents EXCEPT ![f] = documents[f] + 1]

HostClose(f) ==
    /\ documents[f] # 0
    /\ documents' = [documents EXCEPT ![f] = 0]

\* ------------------------------------------------- request correlator
\* new Promise: ++requestId, setTimeout, requestHandlers.set, write the message
RegisterReuse(msg) ==
    /\ requestId' = requestId
    /\ requestHandlers' = requestHandlers \cup {requestId + 1}
    /\ timers' = timers \cup {requestId + 1}
    /\ sent' = [sent EXCEPT ![requestId + 1] = msg]
Register(msg) ==
    /\ requestId' = requestId + 1
    /\ requestHandlers' = requestHandlers \cup {requestId + 1}
    /\ timers' = timers \cup {requestId + 1}
    /\ sent' = [sent EXCEPT ![requestId + 1] = msg]

NoRegister == UNCHANGED <<requestId, requestHandlers, timers, sent>>

\* the timer callback: requestHandlers.delete(requestId); resolve(null)
TimeoutFiresNoResolve(id) ==
    /\ id \in timers
    /\ timers' = timers \ {id}
    /\ requestHandlers' = requestHandlers \ {id}
    /\ UNCHANGED <<delivered, task, disp>>
TimeoutFires(id) ==
    /\ id \in timers
    /\ timers' = timers \ {id}
    /\ requestHandlers' = requestHandlers \ {id}
    /\ delivered' = Deliver({id})
    /\ task' = WakeTasks({id}, Null)
    /\ disp' = WakeDisp({id})

\* a correlated message resolves the entry found under `pending` with v
ResolvePendingClearing(pending, v) ==
    IF pending = 0
    THEN /\ timers' = {}
         /\ UNCHANGED <<requestHandlers, delivered, task, disp>>
    ELSE /\ timers' = ClearTimers({pending})
         /\ requestHandlers' = requestHandlers \ {pending}
         /\ delivered' = Deliver({pending})
         /\ task' = WakeTasks({pending}, v)
         /\ disp' = WakeDisp({pending})
ResolvePending(pending, v) ==
    IF pending = 0
    THEN UNCHANGED <<requestHandlers, timers, delivered, task, disp>>
    ELSE /\ timers' = ClearTimers({pending})
         /\ requestHandlers' = requestHandlers \ {pending}
         /\ delivered' = Deliver({pending})
         /\ task' = WakeTasks({pending}, v)
         /\ disp' = WakeDisp({pending})

\* if (!pending) return: the response is dropped
NoteLate(pending) ==
    lateResponses' = IF pending = 0 /\ lateResponses < MaxLate
                     THEN lateResponses + 1 ELSE lateResponses

\* for (const pending of requestHandlers.values()) { clearTimeout; resolve(v) }
\* requestHandlers.clear()
ResolveNone(v) ==
    UNCHANGED <<timers, delivered, requestHandlers>>
ResolveAll(v) ==
    /\ timers' = ClearTimers(requestHandlers)
    /\ delivered' = Deliver(requestHandlers)
    /\ requestHandlers' = {}

\* ------------------------------------------------- TsServerBackendClient
Bridge_sendTsServerRequest(t, f) ==
    /\ kind = "bridge"
    /\ UNCHANGED <<goVars, startup, lateResponses>>
    /\ NextTask(t)
    /\ Register([cmd |-> "request", file |-> f, ver |-> 0, proc |-> 0])
    /\ task' = [task EXCEPT ![t] = [IdleTask EXCEPT !.pc = "awaitReq", !.file = f,
                                                    !.id = requestId + 1]]
    /\ UNCHANGED <<kind, listening, disposed, openDocumentVersions, tsserverProcess,
                   startPromise, alive, connected, forks, crashes, killed, delivered,
                   documents, disp>>

\* connection.onNotification('tsserver/response', ([id, res]) => ...)
Bridge_onResponse(id, res) ==
    /\ kind = "bridge"
    /\ UNCHANGED <<goVars, startup>>
    /\ listening
    /\ sent[id] # NoMsg
    /\ ResolvePending(LookupPending(id), res)
    /\ NoteLate(LookupPending(id))
    /\ UNCHANGED <<kind, requestId, listening, disposed, openDocumentVersions,
                   tsserverProcess, startPromise, alive, connected, forks, crashes,
                   killed, sent, documents>>

Bridge_onTimeout(id) ==
    /\ kind = "bridge"
    /\ UNCHANGED <<goVars, startup, lateResponses>>
    /\ TimeoutFires(id)
    /\ UNCHANGED <<kind, requestId, listening, disposed, openDocumentVersions,
                   tsserverProcess, startPromise, alive, connected, forks, crashes,
                   killed, sent, documents>>

Bridge_dispose(d) ==
    /\ kind = "bridge"
    /\ UNCHANGED <<goVars, startup, lateResponses>>
    /\ NextDisp(d)
    /\ listening' = FALSE
    /\ ResolveAll(Undef)
    /\ task' = WakeTasks(requestHandlers, Undef)
    /\ disp' = [disp EXCEPT ![d].pc = "done"]
    /\ UNCHANGED <<kind, requestId, disposed, openDocumentVersions, tsserverProcess,
                   startPromise, alive, connected, forks, crashes, killed, sent,
                   documents>>

\* ------------------------------------------------- TsServerProcessBackendClient
\* ensureProcessStarted + startProcess: fork unless disposed or already started.
\* forkOk = FALSE: childProcess.fork throws or the child exposes no IPC send;
\* the catch handler then resets startPromise and the error propagates.
WillForkAlways == ~disposed
WillFork == ~disposed /\ ~startPromise

ensureProcessStarted(forkOk) ==
    IF WillFork /\ forkOk
    THEN /\ forks' = forks + 1
         /\ tsserverProcess' = forks + 1
         /\ alive' = alive \cup {forks + 1}
         /\ connected' = connected \cup {forks + 1}
         /\ startPromise' = TRUE
    ELSE UNCHANGED <<forks, tsserverProcess, alive, connected, startPromise>>

\* sendRawTsServerRequest after ensureProcessStarted:
\* "threw" (start rejected), "null" (channel not connected), "registered"
RawOutcomeNoCheck(forkOk) ==
    IF WillFork /\ ~forkOk THEN "threw" ELSE "registered"
RawOutcome(forkOk) ==
    IF WillFork
    THEN IF forkOk THEN "registered" ELSE "threw"
    ELSE IF tsserverProcess \in connected THEN "registered" ELSE "null"

\* syncOpenDocument: which updateOpen the file needs before a request
SyncKindAlways(f) ==
    IF documents[f] = 0
    THEN IF openDocumentVersions[f] = 0 THEN "none" ELSE "close"
    ELSE IF openDocumentVersions[f] = 0 THEN "open" ELSE "reopen"
SyncKind(f) ==
    IF documents[f] = 0
    THEN IF openDocumentVersions[f] = 0 THEN "none" ELSE "close"
    ELSE IF openDocumentVersions[f] = documents[f] THEN "none"
    ELSE IF openDocumentVersions[f] = 0 THEN "open" ELSE "reopen"

\* syncOpenDocument after its updateOpen resolved: delete or set the record
AfterSync(upd, f, cv) ==
    IF upd = "close"
    THEN [openDocumentVersions EXCEPT ![f] = 0]
    ELSE [openDocumentVersions EXCEPT ![f] = cv]

\* the command itself, once the file is synchronised
SendCommand(t, f, forkOk) ==
    /\ ensureProcessStarted(forkOk)
    /\ CASE RawOutcome(forkOk) = "threw" ->
              /\ NoRegister
              /\ task' = [task EXCEPT ![t] = [@ EXCEPT !.pc = "done", !.file = f,
                                                       !.result = Rejected]]
         [] RawOutcome(forkOk) = "null" ->
              /\ NoRegister
              /\ task' = [task EXCEPT ![t] = [@ EXCEPT !.pc = "done", !.file = f,
                                                       !.result = Null]]
         [] RawOutcome(forkOk) = "registered" ->
              /\ Register([cmd |-> "request", file |-> f, ver |-> 0,
                           proc |-> tsserverProcess'])
              /\ task' = [task EXCEPT ![t] = [@ EXCEPT !.pc = "awaitReq", !.file = f,
                                                       !.id = requestId + 1]]

Process_sendTsServerRequest(t, f, forkOk) ==
    /\ kind = "process"
    /\ UNCHANGED <<goVars, startup, lateResponses>>
    /\ NextTask(t)
    /\ IF SyncKind(f) = "none"
       THEN /\ SendCommand(t, f, forkOk)
            /\ UNCHANGED openDocumentVersions
       ELSE /\ ensureProcessStarted(forkOk)
            /\ CASE RawOutcome(forkOk) = "threw" ->
                      /\ NoRegister
                      /\ UNCHANGED openDocumentVersions
                      /\ task' = [task EXCEPT ![t] = [@ EXCEPT !.pc = "done", !.file = f,
                                                               !.result = Rejected]]
                 [] RawOutcome(forkOk) = "null" ->
                      \* updateOpen and then the command both resolve null at once
                      /\ NoRegister
                      /\ openDocumentVersions' = AfterSync(SyncKind(f), f, documents[f])
                      /\ task' = [task EXCEPT ![t] = [@ EXCEPT !.pc = "done", !.file = f,
                                                               !.result = Null]]
                 [] RawOutcome(forkOk) = "registered" ->
                      /\ Register([cmd |-> SyncKind(f), file |-> f, ver |-> documents[f],
                                   proc |-> tsserverProcess'])
                      /\ UNCHANGED openDocumentVersions
                      /\ task' = [task EXCEPT ![t] =
                                    [@ EXCEPT !.pc = "awaitSync", !.file = f,
                                              !.upd = SyncKind(f), !.cv = documents[f],
                                              !.id = requestId + 1]]
    /\ UNCHANGED <<kind, listening, disposed, crashes, killed, delivered, documents, disp>>

\* continuation of sendTsServerRequest once the updateOpen has resolved
Process_afterSync(t, forkOk) ==
    /\ kind = "process"
    /\ UNCHANGED <<goVars, startup, lateResponses>>
    /\ task[t].pc = "syncDone"
    /\ openDocumentVersions' = AfterSync(task[t].upd, task[t].file, task[t].cv)
    /\ SendCommand(t, task[t].file, forkOk)
    /\ UNCHANGED <<kind, listening, disposed, crashes, killed, delivered, documents, disp>>

\* handleTsServerMessage for a response message with a numeric request_seq
ResponseValue(id, success, hasBody) ==
    IF ~success THEN Null ELSE IF hasBody THEN Body(id) ELSE Null

Process_handleTsServerMessage(id, success, hasBody) ==
    /\ kind = "process"
    /\ UNCHANGED <<goVars, startup>>
    /\ sent[id] # NoMsg
    /\ sent[id].proc \in alive
    /\ ResolvePending(LookupPending(id), ResponseValue(id, success, hasBody))
    /\ NoteLate(LookupPending(id))
    /\ UNCHANGED <<kind, requestId, listening, disposed, openDocumentVersions,
                   tsserverProcess, startPromise, alive, connected, forks, crashes,
                   killed, sent, documents>>

\* the messages handleTsServerMessage returns on before it looks anything
\* up: not an object, not of type response, or without a numeric request_seq
NotANumber == 0 - 1
OtherMessages ==
    {[object |-> FALSE, type |-> "", request_seq |-> NotANumber]}
        \cup [object : {TRUE}, type : {"event", "request"}, request_seq : Ids \cup {NotANumber}]
        \cup [object : {TRUE}, type : {"response"}, request_seq : {NotANumber}]

\* the identifier handleTsServerMessage looks up for a message, 0 = none
RequestSeqAnyType(msg) ==
    IF ~msg.object \/ msg.request_seq = NotANumber THEN 0 ELSE msg.request_seq
RequestSeq(msg) ==
    IF ~msg.object \/ msg.type # "response" \/ msg.request_seq = NotANumber
    THEN 0 ELSE msg.request_seq

\* a running child sends such a message
Process_onOtherMessage(p, msg) ==
    /\ kind = "process"
    /\ UNCHANGED <<goVars, startup, lateResponses>>
    /\ p \in alive
    /\ ResolvePending(LookupPending(RequestSeq(msg)), Null)
    /\ UNCHANGED <<kind, requestId, listening, disposed, openDocumentVersions,
                   tsserverProcess, startPromise, alive, connected, forks, crashes,
                   killed, sent, documents>>

Process_onTimeout(id) ==
    /\ kind = "process"
    /\ UNCHANGED <<goVars, startup, lateResponses>>
    /\ TimeoutFires(id)
    /\ UNCHANGED <<kind, requestId, listening, disposed, openDocumentVersions,
                   tsserverProcess, startPromise, alive, connected, forks, crashes,
                   killed, sent, documents>>

\* the callback of tsserverProcess.send called with an error
Process_onSendError(id) ==
    /\ kind = "process"
    /\ UNCHANGED <<goVars, startup, lateResponses>>
    /\ sent[id] # NoMsg
    /\ ResolvePending(LookupPending(id), Null)
    /\ UNCHANGED <<kind, requestId, listening, disposed, openDocumentVersions,
                   tsserverProcess, startPromise, alive, connected, forks, crashes,
                   killed, sent, documents>>

\* the IPC channel of a child closes (tsserverProcess.connected becomes false)
Process_onDisconnect(p) ==
    /\ kind = "process"
    /\ UNCHANGED <<goVars, startup, lateResponses>>
    /\ p \in connected
    /\ connected' = connected \ {p}
    /\ UNCHANGED <<kind, requestId, requestHandlers, timers, listening, disposed,
                   openDocumentVersions, tsserverProcess, startPromise, alive, forks,
                   crashes, killed, sent, delivered, documents, task, disp>>

\* what the exit handler leaves in tsserverProcess and startPromise
ExitKeepsHandle == <<tsserverProcess, startPromise>>
ExitClearsHandle == <<0, FALSE>>

\* tsserverProcess.on('exit', ...)
Process_onExit(p) ==
    /\ kind = "process"
    /\ UNCHANGED <<goVars, startup, lateResponses>>
    /\ p \in alive
    /\ disposed \/ crashes < MaxCrashes
    /\ alive' = alive \ {p}
    /\ connected' = connected \ {p}
    /\ killed' = killed \ {p}
    /\ crashes' = IF disposed THEN crashes ELSE crashes + 1
    /\ tsserverProcess' = ExitClearsHandle[1]
    /\ startPromise' = ExitClearsHandle[2]
    /\ ResolveAll(Null)
    /\ task' = WakeTasks(requestHandlers, Null)
    /\ disp' = WakeDisp(requestHandlers)
    /\ UNCHANGED <<kind, requestId, listening, disposed, openDocumentVersions, forks,
                   sent, documents>>

\* dispose, from resolving the pending requests on
DisposeFinishNoKill(d) ==
    /\ ResolveAll(Undef)
    /\ task' = WakeTasks(requestHandlers, Undef)
    /\ disp' = [WakeDisp(requestHandlers) EXCEPT ![d].pc = "done"]
    /\ killed' = killed
    /\ tsserverProcess' = 0
    /\ startPromise' = FALSE
DisposeFinish(d) ==
    /\ ResolveAll(Undef)
    /\ task' = WakeTasks(requestHandlers, Undef)
    /\ disp' = [WakeDisp(requestHandlers) EXCEPT ![d].pc = "done"]
    /\ killed' = IF tsserverProcess \in alive THEN killed \cup {tsserverProcess}
                 ELSE killed
    /\ tsserverProcess' = 0
    /\ startPromise' = FALSE

Process_dispose(d) ==
    /\ kind = "process"
    /\ UNCHANGED <<goVars, startup, lateResponses>>
    /\ NextDisp(d)
    /\ disposed' = TRUE
    /\ openDocumentVersions' = [f \in Files |-> 0]
    /\ IF (\E f \in Files : openDocumentVersions[f] # 0) /\ tsserverProcess \in connected
       THEN /\ Register([cmd |-> "closeAll", file |-> NoFile, ver |-> 0,
                         proc |-> tsserverProcess])
            /\ disp' = [disp EXCEPT ![d] = [pc |-> "awaitClose", id |-> requestId + 1]]
            /\ UNCHANGED <<tsserverProcess, startPromise, killed, delivered, task>>
       ELSE /\ DisposeFinish(d)
            /\ UNCHANGED <<requestId, sent>>
    /\ UNCHANGED <<kind, listening, alive, connected, forks, crashes, documents>>

Process_disposeFinish(d) ==
    /\ kind = "process"
    /\ UNCHANGED <<goVars, startup, lateResponses>>
    /\ disp[d].pc = "closeDone"
    /\ DisposeFinish(d)
    /\ UNCHANGED <<kind, requestId, listening, disposed, openDocumentVersions, alive,
                   connected, forks, crashes, sent, documents>>

\* ------------------------------------------------- specification
Host ==
    /\ kind # "tsgo"
    /\ UNCHANGED <<goVars, startup, lateResponses>>
    /\ \E f \in TsFiles :
          \/ \E v \in 1..MaxVersion : HostOpen(f, v)
          \/ HostChange(f)
          \/ HostClose(f)
    /\ UNCHANGED <<kind, requestId, requestHandlers, timers, listening, disposed,
                   openDocumentVersions, tsserverProcess, startPromise, alive, connected,
                   forks, crashes, killed, sent, delivered, task, disp>>

\* ================================================= TsgoLspBackendClient
\* ------------------------------------------------- pure helpers
tsgoSupportedExtensions == {"ts", "tsx", "mts", "cts", "js", "jsx", "mjs", "cjs", "d.ts"}

\* String.prototype.toLowerCase on the extensions that occur
ToLowerCase(s) ==
    CASE s = "TS" -> "ts"
      [] s = "VUE" -> "vue"
      [] OTHER -> s

\* path.extname: the part after the last dot, none for a name without a dot
Extname(name) ==
    IF Len(name) < 2 THEN "" ELSE name[Len(name)]

EndsWithDts(name) ==
    /\ Len(name) >= 3
    /\ name[Len(name) - 1] = "d"
    /\ name[Len(name)] = "ts"

supportsTsgoFile(name) ==
    \/ ToLowerCase(Extname(name)) \in tsgoSupportedExtensions
    \/ EndsWithDts(name)

\* texts are sequences over a blank and a letter
MaxText == 1
Chars == {" ", "x"}
Texts == UNION {[1..n -> Chars] : n \in 0..MaxText}

RECURSIVE TrimStart(_)
TrimStart(s) ==
    IF s # <<>> /\ Head(s) = " " THEN TrimStart(Tail(s)) ELSE s

RECURSIVE TrimEnd(_)
TrimEnd(s) ==
    IF s # <<>> /\ s[Len(s)] = " " THEN TrimEnd(SubSeq(s, 1, Len(s) - 1)) ELSE s

Trim(s) == TrimEnd(TrimStart(s))

Hovers ==
    {NullHover} \cup [k : {"plain", "fenced"}, text : Texts]

\* the three backquotes of a fence
Fence == <<"q", "q", "q">>

\* markdown.match(fenced block): the content of the block if it is not empty,
\* else the whole markdown; trimmed
markdownToDisplayString(h) ==
    IF h.k = "fenced"
    THEN IF h.text # <<>> THEN Trim(h.text) ELSE Trim(Fence \o <<" ">> \o Fence)
    ELSE Trim(h.text)

\* the display string, <<>> standing for undefined and for the empty string
hoverToDisplayStringRaw(h) ==
    IF h.k = "null" THEN <<>> ELSE IF h.k = "fenced" /\ h.text = <<>> THEN Fence ELSE h.text
hoverToDisplayString(h) ==
    IF h.k = "null" THEN <<>> ELSE markdownToDisplayString(h)

\* what the sidecar answers to a request
LspAnswers ==
    [k : {"error"}, hover : {NullHover}, n : {0}]
        \cup [k : {"hover"}, hover : Hovers, n : {0}]
        \cup [k : {"highlights"}, hover : {NullHover}, n : 0..1]
        \cup [k : {"nullHighlights"}, hover : {NullHover}, n : {0}]

\* ------------------------------------------------- messages to the sidecar
LspMsg(m, f, v) == [m |-> m, file |-> f, ver |-> v]

\* syncOpenDocument(document): the notification it writes for a document at
\* version cur (0 = no such document) recorded at version tracked (0 = none)
SyncNotes(conn, f, cur, tracked) ==
    IF ~conn \/ cur = 0 \/ f.scheme # "file" \/ ~supportsTsgoFile(f.name)
    THEN <<>>
    ELSE IF tracked = 0
    THEN <<LspMsg("textDocument/didOpen", f, cur)>>
    ELSE IF tracked # cur
    THEN <<LspMsg("textDocument/didChange", f, cur)>>
    ELSE <<>>

\* ... and the version recorded afterwards
SyncRecord(conn, f, cur, tracked) ==
    IF SyncNotes(conn, f, cur, tracked) = <<>> THEN tracked ELSE cur

\* for (const document of this.server.documents.all()) syncOpenDocument(document)
RECURSIVE SyncAllNotes(_)
SyncAllNotes(fs) ==
    IF fs = <<>> THEN <<>>
    ELSE SyncNotes(TRUE, Head(fs), documents[Head(fs)], openDocumentVersions[Head(fs)])
            \o SyncAllNotes(Tail(fs))

\* syncClosedDocument(uri)
CloseNotes(conn, f, tracked) ==
    IF ~conn \/ f.scheme # "file" \/ tracked = 0
    THEN <<>>
    ELSE <<LspMsg("textDocument/didClose", f, 0)>>

\* ------------------------------------------------- readiness waiters
NextWaiter(w) ==
    waiter[w].pc = "idle" /\ \A u \in Waiters : u < w => waiter[u].pc # "idle"

\* finish(ready) of every waiter in S
Release(S, ready) ==
    [w \in Waiters |->
        IF w \in S
        THEN [waiter[w] EXCEPT !.pc = "finished", !.result = ready, !.n = @ + 1]
        ELSE waiter[w]]

resolveHoverReadyWaitersKeepTimers(ready) ==
    /\ hoverReadyWaiters' = {}
    /\ waiterTimers' = waiterTimers
    /\ waiter' = Release(hoverReadyWaiters, ready)
resolveHoverReadyWaiters(ready) ==
    /\ hoverReadyWaiters' = {}
    /\ waiterTimers' = waiterTimers \ hoverReadyWaiters
    /\ waiter' = Release(hoverReadyWaiters, ready)

markHoverReadyToggle ==
    /\ hoverReady' = ~hoverReady
    /\ resolveHoverReadyWaiters("true")
markHoverReady ==
    IF hoverReady
    THEN UNCHANGED <<hoverReady, hoverReadyWaiters, waiterTimers, waiter>>
    ELSE /\ hoverReady' = TRUE
         /\ resolveHoverReadyWaiters("true")

\* timeouts passed to awaitReadyForHover
Timeouts == {0, 1}

\* the guard of awaitReadyForHover that turns a non-positive timeout away
NonPositiveNever(tmo) == FALSE
NonPositive(tmo) == tmo <= 0

\* awaitReadyForHover(timeoutMs) up to its return or its wait
awaitReadyForHoverAfterDispose(w, tmo) ==
    IF hoverReady
    THEN /\ waiter' = [waiter EXCEPT ![w] =
                [pc |-> "returned", tmo |-> tmo, result |-> "true", n |-> 1]]
         /\ UNCHANGED <<hoverReadyWaiters, waiterTimers>>
    ELSE IF NonPositive(tmo)
    THEN /\ waiter' = [waiter EXCEPT ![w] =
                [pc |-> "returned", tmo |-> tmo, result |-> "false", n |-> 1]]
         /\ UNCHANGED <<hoverReadyWaiters, waiterTimers>>
    ELSE /\ waiter' = [waiter EXCEPT ![w] =
                [pc |-> "waiting", tmo |-> tmo, result |-> "none", n |-> 0]]
         /\ hoverReadyWaiters' = hoverReadyWaiters \cup {w}
         /\ waiterTimers' = waiterTimers \cup {w}
awaitReadyForHover(w, tmo) ==
    IF hoverReady
    THEN /\ waiter' = [waiter EXCEPT ![w] =
                [pc |-> "returned", tmo |-> tmo, result |-> "true", n |-> 1]]
         /\ UNCHANGED <<hoverReadyWaiters, waiterTimers>>
    ELSE IF disposed \/ NonPositive(tmo)
    THEN /\ waiter' = [waiter EXCEPT ![w] =
                [pc |-> "returned", tmo |-> tmo, result |-> "false", n |-> 1]]
         /\ UNCHANGED <<hoverReadyWaiters, waiterTimers>>
    ELSE /\ waiter' = [waiter EXCEPT ![w] =
                [pc |-> "waiting", tmo |-> tmo, result |-> "none", n |-> 0]]
         /\ hoverReadyWaiters' = hoverReadyWaiters \cup {w}
         /\ waiterTimers' = waiterTimers \cup {w}

Go_awaitReadyForHover(w, tmo) ==
    /\ kind = "tsgo"
    /\ NextWaiter(w)
    /\ awaitReadyForHover(w, tmo)
    /\ goOut' = <<>>
    /\ UNCHANGED <<kind, disposed, openDocumentVersions, documents, task, disp, tsOnly, startup, warm,
                   tsgoProcess, tsgoRunning, tsgoSpawns, connectionToTsgo, initPromise,
                   handshake, listeners, hoverReady, fallbackDisposals>>

\* the waiter's own timer: finish(false)
Go_onWaiterTimeout(w) ==
    /\ kind = "tsgo"
    /\ w \in waiterTimers
    /\ waiterTimers' = waiterTimers \ {w}
    /\ hoverReadyWaiters' = hoverReadyWaiters \ {w}
    /\ waiter' = Release({w}, "false")
    /\ goOut' = <<>>
    /\ UNCHANGED <<kind, disposed, openDocumentVersions, documents, task, disp, tsOnly, startup, warm,
                   tsgoProcess, tsgoRunning, tsgoSpawns, connectionToTsgo, initPromise,
                   handshake, listeners, hoverReady, fallbackDisposals>>

\* ------------------------------------------------- requests through the sidecar
\* callFallbackValue: the secondary client is called and awaited
\* (once the secondary is called the record keeps the answer's kind only)
FallbackCall(rec) ==
    [rec EXCEPT !.pc = "awaitFallback", !.method = "", !.file = NoFile, !.fb = @ + 1]

ToFallback(t, m, f) ==
    task' = [task EXCEPT ![t] = FallbackCall([@ EXCEPT !.method = m, !.file = f])]

\* sendLspRequest once the start has settled: null without a connection or
\* after a failed start, else sync the document and write the request
AfterStart(t, m, f, started) ==
    IF started /\ connectionToTsgo
    THEN /\ goOut' = SyncNotes(TRUE, f, documents[f], openDocumentVersions[f])
                        \o <<LspMsg(m, f, 0)>>
         /\ openDocumentVersions' = [openDocumentVersions EXCEPT ![f] =
                SyncRecord(TRUE, f, documents[f], openDocumentVersions[f])]
         /\ task' = [task EXCEPT ![t] = [@ EXCEPT !.pc = "awaitLsp", !.method = m, !.file = f]]
    ELSE /\ goOut' = <<>>
         /\ task' = [task EXCEPT ![t] = FallbackCall([@ EXCEPT !.ans = "absent"])]
         /\ UNCHANGED openDocumentVersions

\* ensureStarted + start up to the wait for the initialize answer
sendLspRequest(t, m, f) ==
    CASE initPromise = "none" /\ disposed ->
            /\ initPromise' = "resolved"
            /\ AfterStart(t, m, f, TRUE)
            /\ UNCHANGED <<tsgoProcess, tsgoRunning, tsgoSpawns, connectionToTsgo>>
      [] initPromise = "none" /\ ~disposed ->
            /\ initPromise' = "pending"
            /\ tsgoProcess' = TRUE
            /\ tsgoRunning' = TRUE
            /\ tsgoSpawns' = tsgoSpawns + 1
            /\ connectionToTsgo' = TRUE
            /\ goOut' = <<LspMsg("initialize", NoFile, 0)>>
            /\ task' = [task EXCEPT ![t] = [@ EXCEPT !.pc = "awaitInit", !.method = m, !.file = f]]
            /\ UNCHANGED openDocumentVersions
      [] initPromise = "pending" ->
            /\ goOut' = <<>>
            /\ task' = [task EXCEPT ![t] = [@ EXCEPT !.pc = "awaitInit", !.method = m, !.file = f]]
            /\ UNCHANGED <<initPromise, tsgoProcess, tsgoRunning, tsgoSpawns, connectionToTsgo,
                           openDocumentVersions>>
      [] initPromise \in {"resolved", "rejected"} ->
            /\ AfterStart(t, m, f, initPromise = "resolved")
            /\ UNCHANGED <<initPromise, tsgoProcess, tsgoRunning, tsgoSpawns, connectionToTsgo>>

\* a request for a file the sidecar does not take goes to the secondary client
RouteAll(t, m, f) == sendLspRequest(t, m, f)
Route(t, m, f) ==
    IF supportsTsgoFile(f.name)
    THEN sendLspRequest(t, m, f)
    ELSE /\ ToFallback(t, m, f)
         /\ goOut' = <<>>
         /\ UNCHANGED <<initPromise, tsgoProcess, tsgoRunning, tsgoSpawns, connectionToTsgo,
                        openDocumentVersions>>

Go_getQuickInfoAtPosition(t, f) ==
    /\ kind = "tsgo"
    /\ NextTask(t)
    /\ markHoverReady
    /\ Route(t, "textDocument/hover", f)
    /\ UNCHANGED <<kind, disposed, documents, disp, tsOnly, startup, warm, handshake, listeners,
                   fallbackDisposals>>

Go_getDocumentHighlights(t, f) ==
    /\ kind = "tsgo"
    /\ NextTask(t)
    /\ Route(t, "textDocument/documentHighlight", f)
    /\ UNCHANGED <<kind, disposed, documents, disp, tsOnly, startup, warm, handshake, listeners,
                   fallbackDisposals, hoverReady, hoverReadyWaiters, waiterTimers, waiter>>

\* getFileText: the open document's text, else the file on disk
HasFileText(f, onDisk) == documents[f] # 0 \/ onDisk

\* the sidecar's answer is one the client can hand to the caller
Usable(m, ans, f, onDisk) ==
    IF m = "textDocument/hover"
    THEN ans.k = "hover" /\ hoverToDisplayString(ans.hover) # <<>>
    ELSE ans.k = "highlights" /\ ans.n > 0 /\ HasFileText(f, onDisk)

\* what kind of answer the sidecar gave: absent (null or an error), empty (no
\* contents, no highlight), blank (a hover of blanks only), noText (highlights
\* of a file whose text cannot be had), or usable
Classify(m, ans, f, onDisk) ==
    IF m = "textDocument/hover"
    THEN IF ans.k = "error" \/ ans.hover.k = "null" THEN "absent"
         ELSE IF ans.hover.k = "fenced" /\ ans.hover.text = <<>> THEN "usable"
         ELSE IF ans.hover.text = <<>> THEN "empty"
         ELSE IF \A i \in DOMAIN ans.hover.text : ans.hover.text[i] = " " THEN "blank"
         ELSE "usable"
    ELSE IF ans.k # "highlights" THEN "absent"
         ELSE IF ans.n = 0 THEN "empty"
         ELSE IF ~HasFileText(f, onDisk) THEN "noText"
         ELSE "usable"

FromSidecar == [k |-> "sidecar", of |-> 0]
FromFallback == [k |-> "fallback", of |-> 0]

\* the sidecar answers (or fails) the request of caller t
Go_onLspAnswer(t, ans, onDisk) ==
    /\ kind = "tsgo"
    /\ task[t].pc = "awaitLsp"
    /\ connectionToTsgo
    /\ ans.k # "error" => tsgoRunning
    /\ ans.k = "error"
        \/ (task[t].method = "textDocument/hover" /\ ans.k = "hover")
        \/ (task[t].method = "textDocument/documentHighlight"
                /\ ans.k \in {"highlights", "nullHighlights"})
    /\ task' = [task EXCEPT ![t] =
            LET rec == [@ EXCEPT !.ans = Classify(task[t].method, ans, task[t].file, onDisk)]
            IN  IF Usable(task[t].method, ans, task[t].file, onDisk)
                THEN [rec EXCEPT !.pc = "done", !.method = "", !.file = NoFile,
                                 !.result = FromSidecar]
                ELSE FallbackCall(rec)]
    /\ goOut' = <<>>
    /\ UNCHANGED <<kind, disposed, openDocumentVersions, documents, disp, tsOnly, startup, warm,
                   tsgoProcess, tsgoRunning, tsgoSpawns, connectionToTsgo, initPromise,
                   handshake, listeners, hoverReady, hoverReadyWaiters, waiterTimers, waiter,
                   fallbackDisposals>>

\* result ?? undefined; a throw of the secondary client is caught
FallbackOutcomes == {"value", "null", "undefined", "throws"}
FallbackValue(o) == IF o = "value" THEN FromFallback ELSE Undef

Go_onFallbackResult(t, o) ==
    /\ kind = "tsgo"
    /\ task[t].pc = "awaitFallback"
    /\ task' = [task EXCEPT ![t] = [@ EXCEPT !.pc = "done", !.result = FallbackValue(o),
                                          !.ans = "none", !.gave = o]]
    /\ goOut' = <<>>
    /\ UNCHANGED <<kind, disposed, openDocumentVersions, documents, disp, tsOnly, startup, warm,
                   tsgoProcess, tsgoRunning, tsgoSpawns, connectionToTsgo, initPromise,
                   handshake, listeners, hoverReady, hoverReadyWaiters, waiterTimers, waiter,
                   fallbackDisposals>>

\* ------------------------------------------------- requests handed on
\* the methods that are callFallback(method, ...args) and nothing else
callFallbackMethods ==
    {"collectExtractProps", "getComponentDirectives", "getComponentNames",
     "getComponentMeta", "getComponentSlots", "getElementAttrs", "getElementNames",
     "getImportPathForFile", "getAutoImportSuggestions",
     "resolveAutoImportCompletionEntry", "isRefAtPosition",
     "getEncodedSemanticClassifications"}

\* the record of a call keeps whether the method inspects component structure
ForwardKind(m) ==
    IF m = "getEncodedSemanticClassifications" THEN m ELSE "structure"

\* callFallback without a secondary client: undefined
callFallbackAbsent(t, m) ==
    task' = [task EXCEPT ![t] = [@ EXCEPT !.pc = "done", !.result = Undef]]
\* callFallback: the promise of the secondary client is returned as it is
callFallback(t, m) ==
    task' = [task EXCEPT ![t] = [@ EXCEPT !.pc = "awaitForward", !.method = ForwardKind(m),
                                          !.fb = @ + 1]]

Go_callFallback(t, m, f) ==
    /\ kind = "tsgo"
    /\ NextTask(t)
    /\ callFallback(t, m)
    /\ goOut' = <<>>
    /\ UNCHANGED <<kind, disposed, openDocumentVersions, documents, disp, tsOnly, startup, warm,
                   tsgoProcess, tsgoRunning, tsgoSpawns, connectionToTsgo, initPromise,
                   handshake, listeners, hoverReady, hoverReadyWaiters, waiterTimers, waiter,
                   fallbackDisposals>>

\* what the caller of a returned promise gets: its value, or its rejection
ForwardValue(o) ==
    CASE o = "value" -> FromFallback
      [] o = "null" -> Null
      [] o = "undefined" -> Undef
      [] o = "throws" -> Rejected

Go_onForwardResult(t, o) ==
    /\ kind = "tsgo"
    /\ task[t].pc = "awaitForward"
    /\ task' = [task EXCEPT ![t] = [@ EXCEPT !.pc = "done", !.method = "",
                                          !.result = ForwardValue(o)]]
    /\ goOut' = <<>>
    /\ UNCHANGED <<kind, disposed, openDocumentVersions, documents, disp, tsOnly, startup, warm,
                   tsgoProcess, tsgoRunning, tsgoSpawns, connectionToTsgo, initPromise,
                   handshake, listeners, hoverReady, hoverReadyWaiters, waiterTimers, waiter,
                   fallbackDisposals>>

\* ------------------------------------------------- sidecar start
\* the initialize request is answered: initialized, then every open document
\* the requests of the callers waiting for the start, in the order of the calls
RECURSIVE WaitingRequests(_)
WaitingRequests(t) ==
    IF t > MaxTasks THEN <<>>
    ELSE (IF task[t].pc = "awaitInit"
          THEN <<LspMsg(task[t].method, task[t].file, 0)>> ELSE <<>>)
            \o WaitingRequests(t + 1)

Go_onInitializeAnswer ==
    /\ kind = "tsgo"
    /\ initPromise = "pending"
    /\ connectionToTsgo
    /\ tsgoRunning
    /\ initPromise' = "resolved"
    /\ handshake' = TRUE
    /\ goOut' = <<LspMsg("initialized", NoFile, 0)>> \o SyncAllNotes(FileSeq)
                    \o WaitingRequests(1)
    /\ openDocumentVersions' =
            [f \in Files |-> SyncRecord(TRUE, f, documents[f], openDocumentVersions[f])]
    /\ task' = [t \in Tasks |->
            IF task[t].pc = "awaitInit" THEN [task[t] EXCEPT !.pc = "awaitLsp"] ELSE task[t]]
    /\ UNCHANGED <<kind, disposed, documents, disp, tsOnly, startup, warm, tsgoProcess, tsgoRunning,
                   tsgoSpawns, connectionToTsgo, listeners, hoverReady, hoverReadyWaiters,
                   waiterTimers, waiter, fallbackDisposals>>

\* the callers waiting for a start that failed turn to the secondary client
StartFailed ==
    [t \in Tasks |->
        IF task[t].pc = "awaitInit"
        THEN FallbackCall([task[t] EXCEPT !.ans = "absent"])
        ELSE task[t]]

\* the initialize request fails (the executable cannot be run, or it answers
\* with an error): start() rejects and the rejection stays in initPromise
Go_onInitializeError ==
    /\ kind = "tsgo"
    /\ initPromise = "pending"
    /\ connectionToTsgo
    /\ initPromise' = "rejected"
    /\ task' = StartFailed
    /\ goOut' = <<>>
    /\ UNCHANGED <<kind, disposed, openDocumentVersions, documents, disp, tsOnly, startup, warm,
                   tsgoProcess, tsgoRunning, tsgoSpawns, connectionToTsgo, handshake, listeners,
                   hoverReady, hoverReadyWaiters, waiterTimers, waiter, fallbackDisposals>>

\* the sidecar process exits by itself: start() registers no exit listener
\* (only an error listener that logs), so no field of the client changes
Go_onSidecarExit ==
    /\ kind = "tsgo"
    /\ tsgoRunning
    /\ tsgoRunning' = FALSE
    /\ goOut' = <<>>
    /\ UNCHANGED <<kind, disposed, openDocumentVersions, documents, task, disp, tsOnly, startup,
                   warm, tsgoProcess, tsgoSpawns, connectionToTsgo, initPromise, handshake,
                   listeners, hoverReady, hoverReadyWaiters, waiterTimers, waiter,
                   fallbackDisposals>>

\* ------------------------------------------------- document listeners
VersionCap(f) == IF supportsTsgoFile(f.name) THEN MaxVersion ELSE MaxOtherVersion

\* the host's document event and, while attached, the client's listener
Go_onDidOpen(f, v) ==
    /\ kind = "tsgo"
    /\ v <= VersionCap(f)
    /\ HostOpen(f, v)
    /\ goOut' = SyncNotes(listeners /\ connectionToTsgo, f, v, openDocumentVersions[f])
    /\ openDocumentVersions' = [openDocumentVersions EXCEPT ![f] =
            SyncRecord(listeners /\ connectionToTsgo, f, v, @)]
    /\ UNCHANGED <<kind, disposed, task, disp, tsOnly, startup, warm, tsgoProcess, tsgoRunning, tsgoSpawns,
                   connectionToTsgo, initPromise, handshake, listeners, hoverReady,
                   hoverReadyWaiters, waiterTimers, waiter, fallbackDisposals>>

Go_onDidChangeContent(f) ==
    /\ kind = "tsgo"
    /\ documents[f] < VersionCap(f)
    /\ HostChange(f)
    /\ goOut' = SyncNotes(listeners /\ connectionToTsgo, f, documents[f] + 1,
                          openDocumentVersions[f])
    /\ openDocumentVersions' = [openDocumentVersions EXCEPT ![f] =
            SyncRecord(listeners /\ connectionToTsgo, f, documents[f] + 1, @)]
    /\ UNCHANGED <<kind, disposed, task, disp, tsOnly, startup, warm, tsgoProcess, tsgoRunning, tsgoSpawns,
                   connectionToTsgo, initPromise, handshake, listeners, hoverReady,
                   hoverReadyWaiters, waiterTimers, waiter, fallbackDisposals>>

Go_onDidClose(f) ==
    /\ kind = "tsgo"
    /\ HostClose(f)
    /\ goOut' = CloseNotes(listeners /\ connectionToTsgo, f, openDocumentVersions[f])
    /\ openDocumentVersions' =
            IF CloseNotes(listeners /\ connectionToTsgo, f, openDocumentVersions[f]) = <<>>
            THEN openDocumentVersions
            ELSE [openDocumentVersions EXCEPT ![f] = 0]
    /\ UNCHANGED <<kind, disposed, task, disp, tsOnly, startup, warm, tsgoProcess, tsgoRunning, tsgoSpawns,
                   connectionToTsgo, initPromise, handshake, listeners, hoverReady,
                   hoverReadyWaiters, waiterTimers, waiter, fallbackDisposals>>

\* ------------------------------------------------- dispose
\* connection.dispose() rejects the requests still waiting on the connection:
\* sendLspRequest catches and returns null, the caller turns to the secondary
RejectPending ==
    [t \in Tasks |->
        IF task[t].pc \in {"awaitLsp", "awaitInit"}
        THEN FallbackCall([task[t] EXCEPT !.ans = "absent"])
        ELSE task[t]]

Go_disposeStartedOnly(d) ==
    /\ kind = "tsgo"
    /\ NextDisp(d)
    /\ disposed' = TRUE
    /\ listeners' = FALSE
    /\ openDocumentVersions' = [f \in Files |-> 0]
    /\ resolveHoverReadyWaiters("false")
    /\ connectionToTsgo' = FALSE
    /\ task' = IF connectionToTsgo THEN RejectPending ELSE task
    /\ initPromise' = IF connectionToTsgo /\ initPromise = "pending"
                      THEN "rejected" ELSE initPromise
    /\ tsgoProcess' = FALSE
    /\ tsgoRunning' = (tsgoRunning /\ ~tsgoProcess)
    /\ fallbackDisposals' = IF tsgoProcess THEN fallbackDisposals + 1 ELSE fallbackDisposals
    /\ disp' = [disp EXCEPT ![d] = [@ EXCEPT !.pc = "awaitFallback"]]
    /\ goOut' = <<>>
    /\ UNCHANGED <<kind, documents, tsOnly, startup, warm, tsgoSpawns, handshake, hoverReady>>
Go_dispose(d) ==
    /\ kind = "tsgo"
    /\ NextDisp(d)
    /\ disposed' = TRUE
    /\ listeners' = FALSE
    /\ openDocumentVersions' = [f \in Files |-> 0]
    /\ resolveHoverReadyWaiters("false")
    /\ connectionToTsgo' = FALSE
    /\ task' = IF connectionToTsgo THEN RejectPending ELSE task
    /\ initPromise' = IF connectionToTsgo /\ initPromise = "pending"
                      THEN "rejected" ELSE initPromise
    /\ tsgoProcess' = FALSE
    /\ tsgoRunning' = (tsgoRunning /\ ~tsgoProcess)
    /\ fallbackDisposals' = fallbackDisposals + 1
    /\ disp' = [disp EXCEPT ![d] = [@ EXCEPT !.pc = "awaitFallback"]]
    /\ goOut' = <<>>
    /\ UNCHANGED <<kind, documents, tsOnly, startup, warm, tsgoSpawns, handshake, hoverReady>>

\* await this.fallback.dispose() returns
Go_afterFallbackDispose(d) ==
    /\ kind = "tsgo"
    /\ disp[d].pc = "awaitFallback"
    /\ disp' = [disp EXCEPT ![d] = [@ EXCEPT !.pc = "done"]]
    /\ goOut' = <<>>
    /\ UNCHANGED <<kind, disposed, openDocumentVersions, documents, task, tsOnly, startup, warm,
                   tsgoProcess, tsgoRunning, tsgoSpawns, connectionToTsgo, initPromise,
                   handshake, listeners, hoverReady, hoverReadyWaiters, waiterTimers, waiter,
                   fallbackDisposals>>


\* ================================================= warmup
\* readonly mode of the two classes
ModeOf(k) == IF k = "tsgo" THEN "tsgo-lsp" ELSE "tsserver"

\* the waiter that warmupTsBackend registers with awaitReadyForHover(8_000)
ServerWaiter == 0

\* the fields a warmup step may change besides warm, goOut and the records
sidecarStart == <<tsgoProcess, tsgoRunning, tsgoSpawns, connectionToTsgo, initPromise>>

\* hasOpenDocuments
hasOpenDocuments == \E f \in Files : documents[f] # 0

\* this.fallback instanceof TsServerProcessBackendClient
shouldPrimeFallbackRequests == startup.tsserverFallback = "process"

\* ensureStarted() + start() up to the wait for the initialize answer
ensureStartedAfterDispose ==
    IF initPromise # "none"
    THEN /\ goOut' = <<>>
         /\ UNCHANGED sidecarStart
    ELSE /\ initPromise' = "pending"
         /\ tsgoProcess' = TRUE
         /\ tsgoRunning' = TRUE
         /\ tsgoSpawns' = tsgoSpawns + 1
         /\ connectionToTsgo' = TRUE
         /\ goOut' = <<LspMsg("initialize", NoFile, 0)>>
ensureStarted ==
    IF initPromise # "none"
    THEN /\ goOut' = <<>>
         /\ UNCHANGED sidecarStart
    ELSE IF disposed
    THEN /\ initPromise' = "resolved"
         /\ goOut' = <<>>
         /\ UNCHANGED <<tsgoProcess, tsgoRunning, tsgoSpawns, connectionToTsgo>>
    ELSE /\ initPromise' = "pending"
         /\ tsgoProcess' = TRUE
         /\ tsgoRunning' = TRUE
         /\ tsgoSpawns' = tsgoSpawns + 1
         /\ connectionToTsgo' = TRUE
         /\ goOut' = <<LspMsg("initialize", NoFile, 0)>>

\* tsBackendWarmupTask ??= ...: the task exists already
TaskMemoizedNever == FALSE
TaskMemoized == warm.task # "none"

\* warmupTsBackend up to its first wait: warmup() of the client is called (it
\* starts the sidecar and warms the secondary client, warmOk = it does not
\* throw), then awaitReadyForHover(8_000)
warmupTsBackend(c, warmOk) ==
    IF ModeOf(kind) # "tsgo-lsp"
    THEN /\ warm' = [warm EXCEPT !.task = "settled", !.runs = @ + 1, !.got[c] = warm.runs + 1,
                                 !.srv = "done"]
         /\ goOut' = <<>>
         /\ UNCHANGED <<sidecarStart, hoverReadyWaiters, waiterTimers>>
    ELSE /\ ensureStarted
         /\ IF hoverReady \/ disposed
            THEN UNCHANGED <<hoverReadyWaiters, waiterTimers>>
            ELSE /\ hoverReadyWaiters' = hoverReadyWaiters \cup {ServerWaiter}
                 /\ waiterTimers' = waiterTimers \cup {ServerWaiter}
         /\ warm' = [warm EXCEPT
                !.runs = @ + 1,
                !.got[c] = warm.runs + 1,
                !.warmups = @ + 1,
                !.pc = IF warmOk THEN "awaitStart" ELSE "failed",
                !.outcome = IF warmOk THEN "none" ELSE "false",
                !.srv = IF hoverReady THEN "done"
                        ELSE IF disposed THEN "awaitWarmup" ELSE "awaitReady",
                !.task = IF hoverReady THEN "settled" ELSE "pending"]

\* ensureTsBackendWarmup(), called by c
Server_ensureTsBackendWarmup(c, warmOk) ==
    /\ kind # "none"
    /\ warm.got[c] = 0
    /\ \A b \in WarmCallers : b < c => warm.got[b] # 0
    /\ IF TaskMemoized
       THEN /\ warm' = [warm EXCEPT !.got[c] = warm.runs]
            /\ goOut' = <<>>
            /\ UNCHANGED <<sidecarStart, hoverReadyWaiters, waiterTimers>>
       ELSE warmupTsBackend(c, warmOk)
    /\ UNCHANGED <<kind, disposed, openDocumentVersions, documents, task, disp, tsOnly, startup,
                   handshake, listeners, hoverReady, waiter, fallbackDisposals>>

\* the timer of the server's waiter: finish(false)
Server_onReadyTimeout ==
    /\ kind = "tsgo"
    /\ ServerWaiter \in waiterTimers
    /\ waiterTimers' = waiterTimers \ {ServerWaiter}
    /\ hoverReadyWaiters' = hoverReadyWaiters \ {ServerWaiter}
    /\ goOut' = <<>>
    /\ UNCHANGED <<kind, disposed, openDocumentVersions, documents, task, disp, tsOnly, startup,
                   warm, sidecarStart, handshake, listeners, hoverReady, waiter,
                   fallbackDisposals>>

\* warmupTsBackend after awaitReadyForHover returned: done when ready, else it
\* awaits warmupPromise (the waiter was released with true only if the client
\* is ready now; it may have been released with false before that)
Server_afterReady(ready) ==
    /\ kind = "tsgo"
    /\ warm.srv = "awaitReady"
    /\ ServerWaiter \notin hoverReadyWaiters
    /\ ready => hoverReady
    /\ warm' = [warm EXCEPT !.srv = IF ready THEN "done" ELSE "awaitWarmup",
                            !.task = IF ready THEN "settled" ELSE @]
    /\ goOut' = <<>>
    /\ UNCHANGED <<kind, disposed, openDocumentVersions, documents, task, disp, tsOnly, startup,
                   sidecarStart, handshake, listeners, hoverReady, hoverReadyWaiters,
                   waiterTimers, waiter, fallbackDisposals>>

\* warmupTsBackend after warmupPromise settled
Server_afterWarmupUncaught ==
    /\ kind = "tsgo"
    /\ warm.srv = "awaitWarmup"
    /\ warm.outcome # "none"
    /\ warm' = [warm EXCEPT !.srv = "done",
                            !.task = IF warm.outcome = "false" THEN "rejected" ELSE "settled"]
    /\ goOut' = <<>>
    /\ UNCHANGED <<kind, disposed, openDocumentVersions, documents, task, disp, tsOnly, startup,
                   sidecarStart, handshake, listeners, hoverReady, hoverReadyWaiters,
                   waiterTimers, waiter, fallbackDisposals>>
Server_afterWarmup ==
    /\ kind = "tsgo"
    /\ warm.srv = "awaitWarmup"
    /\ warm.outcome # "none"
    /\ warm' = [warm EXCEPT !.srv = "done", !.task = "settled"]
    /\ goOut' = <<>>
    /\ UNCHANGED <<kind, disposed, openDocumentVersions, documents, task, disp, tsOnly, startup,
                   sidecarStart, handshake, listeners, hoverReady, hoverReadyWaiters,
                   waiterTimers, waiter, fallbackDisposals>>

\* warmup() after Promise.all: a failed start fails the warmup, else
\* primeOpenDocuments begins by waiting for a first open document
Go_warmupAfterStart ==
    /\ kind = "tsgo"
    /\ warm.pc = "awaitStart"
    /\ initPromise \in {"resolved", "rejected"}
    /\ warm' = IF initPromise = "rejected"
               THEN [warm EXCEPT !.pc = "failed", !.outcome = "false"]
               ELSE [warm EXCEPT !.primes = @ + 1,
                                 !.pc = IF hasOpenDocuments THEN "prime" ELSE "waitDoc"]
    /\ goOut' = <<>>
    /\ UNCHANGED <<kind, disposed, openDocumentVersions, documents, task, disp, tsOnly, startup,
                   sidecarStart, handshake, listeners, hoverReady, hoverReadyWaiters,
                   waiterTimers, waiter, fallbackDisposals>>

\* waitForFirstOpenDocument is over: a document was opened or its timer fired
Go_afterWaitForFirstOpenDocument ==
    /\ kind = "tsgo"
    /\ warm.pc = "waitDoc"
    /\ warm' = [warm EXCEPT !.pc = "prime"]
    /\ goOut' = <<>>
    /\ UNCHANGED <<kind, disposed, openDocumentVersions, documents, task, disp, tsOnly, startup,
                   sidecarStart, handshake, listeners, hoverReady, hoverReadyWaiters,
                   waiterTimers, waiter, fallbackDisposals>>

\* primeOpenDocumentsOnce: the probe started for an open document
ProbeOf(f) ==
    IF documents[f] = 0 \/ f.scheme # "file" THEN "none"
    ELSE IF supportsTsgoFile(f.name)
    THEN IF connectionToTsgo /\ initPromise = "resolved" THEN "pending" ELSE "notReady"
    ELSE IF shouldPrimeFallbackRequests THEN "pending" ELSE "none"

\* what primeTsgoHover writes to the sidecar for the documents it probes
RECURSIVE ProbeNotes(_)
ProbeNotes(fs) ==
    IF fs = <<>> THEN <<>>
    ELSE (IF ProbeOf(Head(fs)) = "pending" /\ supportsTsgoFile(Head(fs).name)
          THEN SyncNotes(TRUE, Head(fs), documents[Head(fs)], openDocumentVersions[Head(fs)])
                    \o <<LspMsg("textDocument/hover", Head(fs), 0)>>
          ELSE <<>>)
            \o ProbeNotes(Tail(fs))

\* one turn of the loop of primeOpenDocuments: while (!this.disposed)
Go_primeOpenDocumentsOnce ==
    /\ kind = "tsgo"
    /\ warm.pc = "prime"
    /\ IF disposed
       THEN /\ warm' = [warm EXCEPT !.pc = "done", !.outcome = "true"]
            /\ goOut' = <<>>
            /\ UNCHANGED openDocumentVersions
       ELSE /\ warm' = [warm EXCEPT !.pc = "probing", !.attempts = @ + 1,
                                    !.probe = [f \in Files |-> ProbeOf(f)]]
            /\ goOut' = ProbeNotes(FileSeq)
            /\ openDocumentVersions' =
                  [f \in Files |->
                      IF ProbeOf(f) = "pending" /\ supportsTsgoFile(f.name)
                      THEN SyncRecord(TRUE, f, documents[f], openDocumentVersions[f])
                      ELSE openDocumentVersions[f]]
    /\ UNCHANGED <<kind, disposed, documents, task, disp, tsOnly, startup,
                   sidecarStart, handshake, listeners, hoverReady, hoverReadyWaiters,
                   waiterTimers, waiter, fallbackDisposals>>

\* a probe settles: the hover of the sidecar gives a display string or not (a
\* disposed connection rejects it), the quick info of the secondary client is
\* a non-empty string or not
Go_onProbeResult(f, ans, ready) ==
    /\ kind = "tsgo"
    /\ warm.pc = "probing"
    /\ warm.probe[f] = "pending"
    /\ ans.k \in {"hover", "error"}
    /\ supportsTsgoFile(f.name) =>
            ready = (connectionToTsgo /\ tsgoRunning /\ ans.k = "hover"
                        /\ hoverToDisplayString(ans.hover) # <<>>)
    /\ ~supportsTsgoFile(f.name) => ans.k = "error"
    /\ warm' = [warm EXCEPT !.probe[f] = IF ready THEN "ready" ELSE "notReady"]
    /\ goOut' = <<>>
    /\ UNCHANGED <<kind, disposed, openDocumentVersions, documents, task, disp, tsOnly, startup,
                   sidecarStart, handshake, listeners, hoverReady, hoverReadyWaiters,
                   waiterTimers, waiter, fallbackDisposals>>

\* the attempt is ready for a backend when no document was probed on it or one
\* of its probes was ready
BucketReady(onTsgo) ==
    LET seen == {f \in Files : warm.probe[f] # "none" /\ supportsTsgoFile(f.name) = onTsgo}
    IN  seen = {} \/ \E f \in seen : warm.probe[f] = "ready"

\* after Promise.all(tasks): return when both backends are ready or the
\* deadline has passed, else sleep and go round again
Go_afterPrimeOnce(late) ==
    /\ kind = "tsgo"
    /\ warm.pc = "probing"
    /\ \A f \in Files : warm.probe[f] # "pending"
    /\ warm.attempts >= MaxAttempts => late
    /\ warm' = IF (BucketReady(TRUE) /\ BucketReady(FALSE)) \/ late
               THEN [warm EXCEPT !.pc = "done", !.outcome = "true",
                                 !.probe = [f \in Files |-> "none"]]
               ELSE [warm EXCEPT !.pc = "prime", !.probe = [f \in Files |-> "none"]]
    /\ goOut' = <<>>
    /\ UNCHANGED <<kind, disposed, openDocumentVersions, documents, task, disp, tsOnly, startup,
                   sidecarStart, handshake, listeners, hoverReady, hoverReadyWaiters,
                   waiterTimers, waiter, fallbackDisposals>>

\* a client that has just been constructed
Fresh ==
    /\ requestId = 0
    /\ requestHandlers = {}
    /\ timers = {}
    /\ listening = TRUE
    /\ disposed = FALSE
    /\ openDocumentVersions = [f \in Files |-> 0]
    /\ tsserverProcess = 0
    /\ startPromise = FALSE
    /\ alive = {}
    /\ connected = {}
    /\ forks = 0
    /\ crashes = 0
    /\ killed = {}
    /\ sent = [i \in Ids |-> NoMsg]
    /\ delivered = [i \in Ids |-> 0]
    /\ lateResponses = 0
    /\ documents = [f \in Files |-> 0]
    /\ task = [t \in Tasks |-> IdleTask]
    /\ disp = [d \in Disposers |-> IdleDisp]
    /\ tsgoProcess = FALSE
    /\ tsgoRunning = FALSE
    /\ tsgoSpawns = 0
    /\ connectionToTsgo = FALSE
    /\ initPromise = "none"
    /\ handshake = FALSE
    /\ listeners = TRUE
    /\ hoverReady = FALSE
    /\ hoverReadyWaiters = {}
    /\ waiterTimers = {}
    /\ waiter = [w \in Waiters |-> IdleWaiter]
    /\ fallbackDisposals = 0
    /\ goOut = <<>>
    /\ warm = IdleWarm

\* one client of either class, constructed
Init ==
    /\ kind \in {"bridge", "process", "tsgo"}
    /\ startup = NoStartup
    /\ Fresh

\* the sidecar client with its secondary client
GoNext ==
    \/ \E f \in Files, v \in 1..MaxVersion : Go_onDidOpen(f, v)
    \/ \E f \in Files : Go_onDidChangeContent(f)
    \/ \E f \in Files : Go_onDidClose(f)
    \/ \E w \in Waiters, tmo \in Timeouts : Go_awaitReadyForHover(w, tmo)
    \/ \E w \in Waiters : Go_onWaiterTimeout(w)
    \/ \E t \in Tasks, f \in Files : Go_getQuickInfoAtPosition(t, f)
    \/ \E t \in Tasks, f \in Files : Go_getDocumentHighlights(t, f)
    \/ \E t \in Tasks, ans \in LspAnswers, onDisk \in BOOLEAN : Go_onLspAnswer(t, ans, onDisk)
    \/ \E t \in Tasks, o \in FallbackOutcomes : Go_onFallbackResult(t, o)
    \/ \E t \in Tasks, m \in callFallbackMethods, f \in Files : Go_callFallback(t, m, f)
    \/ \E t \in Tasks, o \in FallbackOutcomes : Go_onForwardResult(t, o)
    \/ Go_onInitializeAnswer
    \/ Go_onInitializeError
    \/ \E d \in Disposers : Go_dispose(d)
    \/ \E d \in Disposers : Go_afterFallbackDispose(d)

\* the tsserver clients
TsNext ==
    \/ Host
    \/ \E t \in Tasks, f \in TsFiles : Bridge_sendTsServerRequest(t, f)
    \/ \E i \in Ids, res \in {"body", "null"} :
          Bridge_onResponse(i, IF res = "body" THEN Body(i) ELSE Null)
    \/ \E i \in Ids : Bridge_onTimeout(i)
    \/ \E d \in Disposers : Bridge_dispose(d)
    \/ \E t \in Tasks, f \in TsFiles, ok \in BOOLEAN : Process_sendTsServerRequest(t, f, ok)
    \/ \E t \in Tasks, ok \in BOOLEAN : Process_afterSync(t, ok)
    \/ \E i \in Ids, s \in BOOLEAN, b \in BOOLEAN : Process_handleTsServerMessage(i, s, b)
    \/ \E i \in Ids : Process_onTimeout(i)
    \/ \E i \in Ids : Process_onSendError(i)
    \/ \E p \in 1..(MaxCrashes + 1) : Process_onDisconnect(p)
    \/ \E p \in 1..(MaxCrashes + 1) : Process_onExit(p)
    \/ \E d \in Disposers : Process_dispose(d)
    \/ \E d \in Disposers : Process_disposeFinish(d)

Next == TsNext \/ GoNext

Spec == Init /\ [][Next]_vars

\* the tsserver clients alone
TsInit == Init /\ kind # "tsgo"
TsSpec == TsInit /\ [][TsNext]_vars

\* the sidecar client alone
TsgoInit == Init /\ kind = "tsgo"
TsgoSpec == TsgoInit /\ [][GoNext]_vars

\* the sidecar client with a sidecar process that may exit at any time
CrashSpec == TsgoInit /\ [][GoNext \/ Go_onSidecarExit]_vars

\* the sidecar client, constructed over either secondary client, and the
\* warmup of startServer, with one hover call and one dispose call
WarmInit ==
    /\ \/ /\ kind = "tsgo"
          /\ \E resolvable \in BOOLEAN :
                startup = [NoStartup EXCEPT !.created = TRUE, !.preference = "tsgo-lsp",
                                            !.mode = "tsgo-lsp",
                                            !.tsserverFallback = IF resolvable THEN "process"
                                                                 ELSE "bridge"]
       \/ /\ kind = "bridge"
          /\ startup = [NoStartup EXCEPT !.created = TRUE, !.preference = "tsserver",
                                         !.mode = "tsserver"]
    /\ Fresh

WarmNext ==
    \/ \E c \in WarmCallers, warmOk \in BOOLEAN : Server_ensureTsBackendWarmup(c, warmOk)
    \/ Server_onReadyTimeout
    \/ \E ready \in BOOLEAN : Server_afterReady(ready)
    \/ Server_afterWarmup
    \/ Go_warmupAfterStart
    \/ Go_afterWaitForFirstOpenDocument
    \/ Go_primeOpenDocumentsOnce
    \/ \E f \in Files, ans \in LspAnswers, ready \in BOOLEAN : Go_onProbeResult(f, ans, ready)
    \/ \E late \in BOOLEAN : Go_afterPrimeOnce(late)
    \/ \E f \in Files, v \in 1..MaxVersion : Go_onDidOpen(f, v)
    \/ \E f \in Files : Go_onDidChangeContent(f)
    \/ \E f \in Files : Go_onDidClose(f)
    \/ \E f \in Files : Go_getQuickInfoAtPosition(1, f)
    \/ \E ans \in LspAnswers, onDisk \in BOOLEAN : Go_onLspAnswer(1, ans, onDisk)
    \/ \E o \in FallbackOutcomes : Go_onFallbackResult(1, o)
    \/ Go_onInitializeAnswer
    \/ Go_onInitializeError
    \/ Go_dispose(1)
    \/ Go_afterFallbackDispose(1)

WarmSpec == WarmInit /\ [][WarmNext]_vars

\* the sidecar client alone, constructed over either secondary client
SidecarInit == WarmInit /\ kind = "tsgo"

\* the compiler-protocol process client alone
ProcessInit == TsInit /\ kind = "process"

\* ================================================= createTsBackendClient
Preferences == {"undefined", "tsserver", "tsgo-lsp", "auto"}

\* what spawnSync(tsgoPath, ['--version']) gives: it throws, or returns the
\* error, the signal and the exit status of the run
ProbeResults ==
    {[threw |-> TRUE, error |-> FALSE, signal |-> FALSE, status |-> "null"],
     [threw |-> FALSE, error |-> TRUE, signal |-> FALSE, status |-> "null"],
     [threw |-> FALSE, error |-> FALSE, signal |-> TRUE, status |-> "null"],
     [threw |-> FALSE, error |-> FALSE, signal |-> FALSE, status |-> "1"],
     [threw |-> FALSE, error |-> FALSE, signal |-> FALSE, status |-> "0"]}

canStartTsgoAnyStatus(result) ==
    ~result.threw /\ ~result.error /\ ~result.signal
canStartTsgo(result) ==
    ~result.threw /\ ~result.error /\ ~result.signal /\ result.status = "0"

\* options.preference ?? 'tsserver'
DefaultPreferenceAuto(p) == IF p = "undefined" THEN "auto" ELSE p
DefaultPreference(p) == IF p = "undefined" THEN "tsserver" ELSE p

\* the class of the client constructed
ClientKind(p, result) ==
    IF DefaultPreference(p) = "tsgo-lsp" THEN "tsgo"
    ELSE IF DefaultPreference(p) = "auto"
    THEN IF canStartTsgo(result) THEN "tsgo" ELSE "bridge"
    ELSE "bridge"

\* the secondary client: the spawned one, the bridged one if its constructor
\* throws (the tsserver path cannot be resolved)
createTsgoFallbackClientUncaught(resolvable) == IF resolvable THEN "process" ELSE "threw"
createTsgoFallbackClient(resolvable) == IF resolvable THEN "process" ELSE "bridge"

packageName == "@vue/language-server"

createTsBackendClient(p, result, resolvable) ==
    /\ kind = "none"
    /\ kind' = ClientKind(p, result)
    /\ startup' = [created |-> TRUE,
                   preference |-> p,
                   probe |-> IF DefaultPreference(p) = "auto" THEN result ELSE NotRun,
                   probeRuns |-> IF DefaultPreference(p) = "auto" THEN 1 ELSE 0,
                   mode |-> ModeOf(ClientKind(p, result)),
                   tsserverFallback |-> IF ClientKind(p, result) = "tsgo"
                                        THEN createTsgoFallbackClient(resolvable)
                                        ELSE "none",
                   serverInfo |-> <<>>,
                   down |-> {}]
    /\ UNCHANGED <<requestId, requestHandlers, timers, listening, disposed,
                   openDocumentVersions, tsserverProcess, startPromise, alive, connected,
                   forks, crashes, killed, sent, delivered, lateResponses, documents, task,
                   disp, goVars>>

\* connection.onInitialize: the name of serverInfo carries the client's mode
Server_onInitialize ==
    /\ startup.created
    /\ startup.serverInfo = <<>>
    /\ startup' = [startup EXCEPT !.serverInfo = <<packageName, " [", ModeOf(kind), "]">>]
    /\ UNCHANGED <<tsVars, goVars>>

\* the server from its start: the client is selected, then used
SelectInit ==
    /\ kind = "none"
    /\ startup = NoStartup
    /\ Fresh

SelectNext ==
    \/ \E p \in Preferences, result \in ProbeResults, resolvable \in BOOLEAN :
            createTsBackendClient(p, result, resolvable)
    \/ Server_onInitialize
    \/ Host
    \/ \E t \in Tasks, f \in TsFiles : Bridge_sendTsServerRequest(t, f)
    \/ \E i \in Ids, res \in {"body", "null"} :
          Bridge_onResponse(i, IF res = "body" THEN Body(i) ELSE Null)
    \/ \E i \in Ids : Bridge_onTimeout(i)
    \/ \E d \in Disposers : Bridge_dispose(d)

SelectSpec == SelectInit /\ [][SelectNext]_vars

\* ------------------------------------------------- project info
\* the directories above a file, from the root (0) down to the directory that
\* holds the file (MaxDepth); a layout says which of them hold a tsconfig.json
\* and which a jsconfig.json
Depths == 0..MaxDepth
NoDir == 0 - 1
NoConfig == [k |-> "null", of |-> NoDir]
\* the length of the path of a directory, its names being one character long
DirLen(d) == IF d = 0 THEN 1 ELSE 2 * d

\* ts.findConfigFile(dir, fileExists, name): walks up from dir and gives the
\* first directory that holds the name
findConfigFile(at) ==
    IF at = {} THEN NoDir ELSE CHOOSE d \in at : \A e \in at : e <= d

\* findClosestConfig: the candidates found, those whose directory contains
\* the file, sorted by the length of the directory's path, longest first
findClosestConfigFirst(tsAt, jsAt) ==
    LET candidates ==
            SelectSeq(<<[k |-> "tsconfig.json", of |-> findConfigFile(tsAt)],
                        [k |-> "jsconfig.json", of |-> findConfigFile(jsAt)]>>,
                      LAMBDA c : c.of # NoDir)
    IN  IF candidates = <<>> THEN NoConfig ELSE Head(candidates)
findClosestConfig(tsAt, jsAt) ==
    LET candidates ==
            SelectSeq(<<[k |-> "tsconfig.json", of |-> findConfigFile(tsAt)],
                        [k |-> "jsconfig.json", of |-> findConfigFile(jsAt)]>>,
                      LAMBDA c : c.of # NoDir)
        containing == SelectSeq(candidates, LAMBDA c : c.of \in Depths)
        sorted == IF Len(containing) = 2
                        /\ DirLen(containing[1].of) - DirLen(containing[2].of) < 0
                  THEN <<containing[2], containing[1]>>
                  ELSE containing
    IN  IF candidates = <<>> THEN NoConfig
        ELSE IF sorted # <<>> THEN Head(sorted)
        ELSE Head(candidates)

\* callFallbackProjectInfo: null without a secondary client, null when it
\* throws, else what it gives
ProjectInfoOutcomes == {"value", "null", "throws"}
callFallbackProjectInfo(present, o) ==
    IF ~present THEN Null
    ELSE IF o = "value" THEN FromFallback ELSE Null

\* getProjectInfo of the sidecar client, for a file under the given layout
Go_getProjectInfo(t, f, tsAt, jsAt) ==
    /\ kind = "tsgo"
    /\ NextTask(t)
    /\ task' = [task EXCEPT ![t] =
            IF findClosestConfig(tsAt, jsAt) # NoConfig
            THEN [@ EXCEPT !.pc = "done", !.result = findClosestConfig(tsAt, jsAt)]
            ELSE [@ EXCEPT !.pc = "awaitProjectInfo", !.file = f, !.fb = @ + 1]]
    /\ goOut' = <<>>
    /\ UNCHANGED <<kind, disposed, openDocumentVersions, documents, disp, tsOnly, startup, warm,
                   tsgoProcess, tsgoRunning, tsgoSpawns, connectionToTsgo, initPromise,
                   handshake, listeners, hoverReady, hoverReadyWaiters, waiterTimers, waiter,
                   fallbackDisposals>>

\* getProjectInfo of the secondary client settles
Go_onProjectInfoResult(t, o) ==
    /\ kind = "tsgo"
    /\ task[t].pc = "awaitProjectInfo"
    /\ task' = [task EXCEPT ![t] =
            [@ EXCEPT !.pc = "done", !.file = NoFile, !.gave = o,
                      !.result = callFallbackProjectInfo(startup.tsserverFallback # "none", o)]]
    /\ goOut' = <<>>
    /\ UNCHANGED <<kind, disposed, openDocumentVersions, documents, disp, tsOnly, startup, warm,
                   tsgoProcess, tsgoRunning, tsgoSpawns, connectionToTsgo, initPromise,
                   handshake, listeners, hoverReady, hoverReadyWaiters, waiterTimers, waiter,
                   fallbackDisposals>>

ProjectNext ==
    \/ \E t \in Tasks, f \in Files, tsAt \in SUBSET Depths, jsAt \in SUBSET Depths :
            Go_getProjectInfo(t, f, tsAt, jsAt)
    \/ \E t \in Tasks, o \in ProjectInfoOutcomes : Go_onProjectInfoResult(t, o)
    \/ \E f \in Files, v \in 1..MaxVersion : Go_onDidOpen(f, v)
    \/ \E f \in Files : Go_onDidClose(f)

ProjectSpec == SidecarInit /\ [][ProjectNext]_vars

\* ------------------------------------------------- offsets and positions
\* texts over a letter and the line feed (char code 10)
LineTexts == UNION {[1..n -> {"x", "\n"}] : n \in 0..MaxLineText}
MathMax(a, b) == IF a >= b THEN a ELSE b
MathMin(a, b) == IF a <= b THEN a ELSE b

\* the loop of positionToOffset: index and line advance until the text ends
\* or the target line is reached
RECURSIVE LineIndex(_, _, _, _)
LineIndex(text, index, line, targetLine) ==
    IF index < Len(text) /\ line < targetLine
    THEN LineIndex(text, index + 1,
                   IF text[index + 1] = "\n" THEN line + 1 ELSE line, targetLine)
    ELSE index

positionToOffsetFlat(text, position) ==
    MathMin(Len(text), MathMax(0, position.character))
positionToOffset(text, position) ==
    MathMin(Len(text),
            LineIndex(text, 0, 0, MathMax(0, position.line))
                + MathMax(0, position.character))

\* the loop of offsetToPosition: i runs up to targetOffset, counting line
\* feeds and keeping the index after the last one
RECURSIVE LineScan(_, _, _, _, _)
LineScan(text, i, targetOffset, line, lineStart) ==
    IF i < targetOffset
    THEN IF text[i + 1] = "\n"
         THEN LineScan(text, i + 1, targetOffset, line + 1, i + 1)
         ELSE LineScan(text, i + 1, targetOffset, line, lineStart)
    ELSE [line |-> line, character |-> targetOffset - lineStart]

offsetToPosition(text, offset) ==
    LineScan(text, 0, MathMin(MathMax(offset, 0), Len(text)), 0, 0)

rangeToTextSpan(text, range) ==
    [start |-> positionToOffset(text, range.start),
     length |-> MathMax(0, positionToOffset(text, range.end)
                              - positionToOffset(text, range.start))]

\* the offsets a caller may pass and the positions the sidecar may answer with
Offsets == (0 - 1)..(MaxLineText + 1)
Positions == [line : 0..MaxLineText, character : 0..MaxLineText]
Ranges == [start : Positions, end : Positions]

\* getDocumentHighlights for a file the sidecar takes, once the sidecar is
\* started: `text` is what getFileText gives for the file, the request
\* carries the position of the caller's offset
Go_getDocumentHighlightsAt(t, f, text, offset) ==
    /\ kind = "tsgo"
    /\ NextTask(t)
    /\ supportsTsgoFile(f.name)
    /\ initPromise = "resolved"
    /\ connectionToTsgo
    /\ goOut' = SyncNotes(TRUE, f, documents[f], openDocumentVersions[f])
                    \o <<[m |-> "textDocument/documentHighlight", file |-> f, ver |-> 0,
                          position |-> offsetToPosition(text, offset)]>>
    /\ openDocumentVersions' = [openDocumentVersions EXCEPT ![f] =
            SyncRecord(TRUE, f, documents[f], openDocumentVersions[f])]
    /\ task' = [task EXCEPT ![t] =
            [@ EXCEPT !.pc = "awaitSpans", !.method = "textDocument/documentHighlight",
                      !.file = f]]
    /\ UNCHANGED <<kind, disposed, documents, disp, tsOnly, startup, warm,
                   tsgoProcess, tsgoRunning, tsgoSpawns, connectionToTsgo, initPromise,
                   handshake, listeners, hoverReady, hoverReadyWaiters, waiterTimers, waiter,
                   fallbackDisposals>>

\* the sidecar answers with one highlight: its range becomes a text span over
\* the text getFileText gives now
Go_onHighlightsAt(t, text, range) ==
    /\ kind = "tsgo"
    /\ task[t].pc = "awaitSpans"
    /\ connectionToTsgo
    /\ tsgoRunning
    /\ task' = [task EXCEPT ![t] =
            [@ EXCEPT !.pc = "done", !.method = "", !.file = NoFile, !.ans = "usable",
                      !.result = [k |-> "spans", of |-> rangeToTextSpan(text, range)]]]
    /\ goOut' = <<>>
    /\ UNCHANGED <<kind, disposed, openDocumentVersions, documents, disp, tsOnly, startup, warm,
                   tsgoProcess, tsgoRunning, tsgoSpawns, connectionToTsgo, initPromise,
                   handshake, listeners, hoverReady, hoverReadyWaiters, waiterTimers, waiter,
                   fallbackDisposals>>

SpanNext ==
    \/ \E c \in WarmCallers, warmOk \in BOOLEAN : Server_ensureTsBackendWarmup(c, warmOk)
    \/ Go_onInitializeAnswer
    \/ \E t \in Tasks, f \in Files, text \in LineTexts, offset \in Offsets :
            Go_getDocumentHighlightsAt(t, f, text, offset)
    \/ \E t \in Tasks, text \in LineTexts, range \in Ranges : Go_onHighlightsAt(t, text, range)

SpanSpec == SidecarInit /\ [][SpanNext]_vars

\* either spawned transport with everything that can happen around a dispose:
\* the sidecar client with the warmup of startServer, project info and a
\* sidecar that may exit, or the compiler-protocol process client
DisposedInit == SidecarInit \/ ProcessInit

DisposedNext ==
    \/ \E warmOk \in BOOLEAN : Server_ensureTsBackendWarmup(1, warmOk)
    \/ Server_onReadyTimeout
    \/ \E ready \in BOOLEAN : Server_afterReady(ready)
    \/ Server_afterWarmup
    \/ Go_warmupAfterStart
    \/ Go_afterWaitForFirstOpenDocument
    \/ Go_primeOpenDocumentsOnce
    \/ \E f \in Files, ans \in LspAnswers, ready \in BOOLEAN : Go_onProbeResult(f, ans, ready)
    \/ \E late \in BOOLEAN : Go_afterPrimeOnce(late)
    \/ Go_onDidOpen(FileTs, 1)
    \/ Go_getQuickInfoAtPosition(1, FileTs)
    \/ \E ans \in LspAnswers, onDisk \in BOOLEAN : Go_onLspAnswer(1, ans, onDisk)
    \/ \E o \in FallbackOutcomes : Go_onFallbackResult(1, o)
    \/ Go_onInitializeAnswer
    \/ Go_onInitializeError
    \/ Go_dispose(1)
    \/ Go_afterFallbackDispose(1)
    \/ Go_onSidecarExit
    \/ \E f \in Files, tsAt \in {{}, {1}} : Go_getProjectInfo(1, f, tsAt, {})
    \/ \E o \in ProjectInfoOutcomes : Go_onProjectInfoResult(1, o)
    \/ Host
    \/ \E t \in Tasks, f \in TsFiles, ok \in BOOLEAN : Process_sendTsServerRequest(t, f, ok)
    \/ \E t \in Tasks, ok \in BOOLEAN : Process_afterSync(t, ok)
    \/ \E i \in Ids, s \in BOOLEAN, b \in BOOLEAN : Process_handleTsServerMessage(i, s, b)
    \/ \E i \in Ids : Process_onTimeout(i)
    \/ \E i \in Ids : Process_onSendError(i)
    \/ \E p \in 1..(MaxCrashes + 1) : Process_onDisconnect(p)
    \/ \E p \in 1..(MaxCrashes + 1) : Process_onExit(p)
    \/ \E d \in Disposers : Process_dispose(d)
    \/ \E d \in Disposers : Process_disposeFinish(d)

DisposedSpec == DisposedInit /\ [][DisposedNext]_vars

\* ------------------------------------------------- a recorded document
\* the spawned client after its first request for a.ts, open in the host at
\* version 1, has been answered: the child runs, the file is recorded, both
\* identifiers are resolved and the call has returned
RecordedInit ==
    /\ kind = "process"
    /\ startup = NoStartup
    /\ requestId = 2
    /\ requestHandlers = {}
    /\ timers = {}
    /\ listening = TRUE
    /\ disposed = FALSE
    /\ openDocumentVersions = [f \in Files |-> IF f = FileTs THEN 1 ELSE 0]
    /\ tsserverProcess = 1
    /\ startPromise = TRUE
    /\ alive = {1}
    /\ connected = {1}
    /\ forks = 1
    /\ crashes = 0
    /\ killed = {}
    /\ sent = [i \in Ids |->
                 IF i = 1 THEN [cmd |-> "open", file |-> FileTs, ver |-> 1, proc |-> 1]
                 ELSE IF i = 2 THEN [cmd |-> "request", file |-> FileTs, ver |-> 0, proc |-> 1]
                 ELSE NoMsg]
    /\ delivered = [i \in Ids |-> IF i <= 2 THEN 1 ELSE 0]
    /\ lateResponses = 0
    /\ documents = [f \in Files |-> IF f = FileTs THEN 1 ELSE 0]
    /\ task = [t \in Tasks |-> IdleTask]
    /\ disp = [d \in Disposers |-> IdleDisp]
    /\ tsgoProcess = FALSE
    /\ tsgoRunning = FALSE
    /\ tsgoSpawns = 0
    /\ connectionToTsgo = FALSE
    /\ initPromise = "none"
    /\ handshake = FALSE
    /\ listeners = TRUE
    /\ hoverReady = FALSE
    /\ hoverReadyWaiters = {}
    /\ waiterTimers = {}
    /\ waiter = [w \in Waiters |-> IdleWaiter]
    /\ fallbackDisposals = 0
    /\ goOut = <<>>
    /\ warm = IdleWarm

RecordedNext ==
    \/ Host
    \/ \E t \in Tasks, f \in TsFiles, ok \in BOOLEAN : Process_sendTsServerRequest(t, f, ok)
    \/ \E t \in Tasks, ok \in BOOLEAN : Process_afterSync(t, ok)
    \/ \E i \in Ids, s \in BOOLEAN, b \in BOOLEAN : Process_handleTsServerMessage(i, s, b)
    \/ \E i \in Ids : Process_onTimeout(i)

RecordedSpec == RecordedInit /\ [][RecordedNext]_vars

\* the spawned client from its construction, with every kind of message of
\* its child
MessageSpec ==
    /\ ProcessInit
    /\ [][\/ RecordedNext
          \/ \E p \in 1..(MaxCrashes + 1), msg \in OtherMessages :
                Process_onOtherMessage(p, msg)]_vars

\* ------------------------------------------------- shutdown
\* connection.onShutdown: every dispose call is the first half of a run of this
\* handler; await tsBackend.dispose() has returned for the run
DisposeNotAwaited(d) == disp[d].pc # "idle"
DisposeAwaited(d) == disp[d].pc = "done"

\* ... and server.shutdown() is called
Server_onShutdown(d) ==
    /\ DisposeAwaited(d)
    /\ d \notin startup.down
    /\ startup' = [startup EXCEPT !.down = @ \cup {d}]
    /\ UNCHANGED <<tsVars, goVars>>

\* the clients with the shutdown handler of startServer
ShutdownNext ==
    \/ Host
    \/ \E t \in Tasks, f \in TsFiles : Bridge_sendTsServerRequest(t, f)
    \/ \E i \in Ids, res \in {"body", "null"} :
          Bridge_onResponse(i, IF res = "body" THEN Body(i) ELSE Null)
    \/ \E d \in Disposers : Bridge_dispose(d)
    \/ \E t \in Tasks, f \in TsFiles, ok \in BOOLEAN : Process_sendTsServerRequest(t, f, ok)
    \/ \E t \in Tasks, ok \in BOOLEAN : Process_afterSync(t, ok)
    \/ \E i \in Ids, s \in BOOLEAN, b \in BOOLEAN : Process_handleTsServerMessage(i, s, b)
    \/ \E p \in 1..(MaxCrashes + 1) : Process_onExit(p)
    \/ \E d \in Disposers : Process_dispose(d)
    \/ \E d \in Disposers : Process_disposeFinish(d)
    \/ \E t \in Tasks, f \in Files : Go_getQuickInfoAtPosition(t, f)
    \/ \E t \in Tasks, o \in FallbackOutcomes : Go_onFallbackResult(t, o)
    \/ Go_onInitializeAnswer
    \/ \E d \in Disposers : Go_dispose(d)
    \/ \E d \in Disposers : Go_afterFallbackDispose(d)
    \/ \E d \in Disposers : Server_onShutdown(d)

ShutdownSpec == Init /\ [][ShutdownNext]_vars

\* ------------------------------------------------- the backend stays silent
\* the executions in which the backend never answers, never fails a send and
\* never exits, and nobody disposes: only the timers can resolve a request
SilentNext ==
    \/ Host
    \/ \E t \in Tasks, f \in TsFiles : Bridge_sendTsServerRequest(t, f)
    \/ \E i \in Ids : Bridge_onTimeout(i)
    \/ \E t \in Tasks, f \in TsFiles, ok \in BOOLEAN : Process_sendTsServerRequest(t, f, ok)
    \/ \E t \in Tasks, ok \in BOOLEAN : Process_afterSync(t, ok)
    \/ \E i \in Ids : Process_onTimeout(i)

\* an armed timer fires; the continuation of a resolved wait runs
TimerFairness ==
    /\ \A i \in Ids : WF_vars(Bridge_onTimeout(i))
    /\ \A i \in Ids : WF_vars(Process_onTimeout(i))
    /\ \A t \in Tasks : WF_vars(\E ok \in BOOLEAN : Process_afterSync(t, ok))

SilentSpec == TsInit /\ [][SilentNext]_vars /\ TimerFairness

\* ------------------------------------------------- the sidecar stays silent
\* the executions in which the sidecar answers the initialize request at most,
\* never a hover or a documentHighlight, and nobody disposes
GoSilentNext ==
    \/ \E f \in Files, v \in 1..MaxVersion : Go_onDidOpen(f, v)
    \/ \E f \in Files : Go_onDidChangeContent(f)
    \/ \E f \in Files : Go_onDidClose(f)
    \/ \E t \in Tasks, f \in Files : Go_getQuickInfoAtPosition(t, f)
    \/ \E t \in Tasks, f \in Files : Go_getDocumentHighlights(t, f)
    \/ \E t \in Tasks, o \in FallbackOutcomes : Go_onFallbackResult(t, o)
    \/ Go_onInitializeAnswer

\* the secondary client settles every call made to it
FallbackFairness ==
    \A t \in Tasks : WF_vars(\E o \in FallbackOutcomes : Go_onFallbackResult(t, o))

GoSilentSpec == TsgoInit /\ [][GoSilentNext]_vars /\ FallbackFairness

\* ------------------------------------------------- claims

\* C1 Correlation correctness: a request that resolves with a response body
\* resolves with the body of the response carrying its own identifier, in
\* whatever order the responses arrive (bridged and spawned transports).
CorrelationCorrectness ==
    \A t \in Tasks :
        task[t].result.k = "body" =>
            /\ task[t].pc = "done"
            /\ task[t].result = Body(task[t].id)

\* two requests in flight; the later one was answered first, with its own body
CorrelationWitness ==
    \E t, u \in Tasks :
        /\ task[t].pc = "awaitReq"
        /\ task[u].pc = "done"
        /\ task[u].result = Body(task[u].id)
        /\ task[t].id < task[u].id
        /\ task[t].id \in requestHandlers

\* C2 Every pending entry is removed once and its caller resolved once, by the
\* first of response, timeout, send error, exit, dispose: an identifier that was
\* issued is either still pending and unresolved, or absent and resolved exactly
\* once, and nothing is left armed that could resolve it again.
ResolvedExactlyOnce ==
    /\ timers \subseteq requestHandlers
    /\ \A i \in Ids :
        /\ delivered[i] <= 1
        /\ i \in requestHandlers => (i <= requestId /\ delivered[i] = 0)
        /\ (i <= requestId /\ i \notin requestHandlers) => delivered[i] = 1
        /\ i > requestId => delivered[i] = 0

\* several entries were resolved, one of them by an unexpected exit, and a
\* later request is pending on the respawned process
ResolvedOnceWitness ==
    /\ crashes = 1
    /\ \E i, j, n \in Ids :
        /\ i < j /\ j < n
        /\ delivered[i] = 1 /\ delivered[j] = 1
        /\ sent[j].proc = 1
        /\ n \in requestHandlers /\ sent[n].proc = 2

\* C3 Timeout resolves, never hangs: when the backend never responds, a request
\* that is waiting (for its document sync or for its command) eventually
\* completes with null, and its entry is then absent from the pending table.
TimeoutResolves ==
    \A t \in Tasks :
        (task[t].pc \in {"awaitSync", "awaitReq"})
            ~> (/\ task[t].pc = "done"
                /\ task[t].result = Null
                /\ task[t].id \notin requestHandlers)

\* a request timed out twice on the spawned transport: sync, then command
TimeoutWitness ==
    \E t \in Tasks :
        /\ task[t].pc = "done" /\ task[t].result = Null
        /\ task[t].id >= 2
        /\ delivered[task[t].id] = 1
        /\ task[t].upd # "none"

\* C4 Crash recovery (spawned transport): when the child exits and dispose was
\* not called, every pending request resolves null, the table is empty, the
\* process handle and the memoized start are cleared; and a request issued with
\* no process spawns a fresh one and is written to it.
IsExitStep == alive' # alive /\ alive' \subseteq alive
IsFreshStartStep == tsserverProcess = 0 /\ requestId' = requestId + 1

CrashRecovery ==
    [][ /\ (IsExitStep /\ ~disposed) =>
              /\ requestHandlers' = {}
              /\ timers' = {}
              /\ tsserverProcess' = 0
              /\ startPromise' = FALSE
              /\ \A i \in requestHandlers : delivered'[i] = 1
              /\ \A t \in Tasks :
                    /\ task[t].pc = "awaitReq" =>
                          (task'[t].pc = "done" /\ task'[t].result = Null)
                    /\ task[t].pc = "awaitSync" => task'[t].pc = "syncDone"
        /\ (kind = "process" /\ IsFreshStartStep) =>
              /\ tsserverProcess' = forks + 1
              /\ forks' = forks + 1
              /\ tsserverProcess' \in connected'
              /\ sent'[requestId'].proc = tsserverProcess'
      ]_vars

\* a request issued after the crash was answered by the second process
CrashRecoveryWitness ==
    \E t, u \in Tasks :
        /\ crashes = 1
        /\ task[t].pc = "done" /\ task[t].result = Null
        /\ task[t].id \in Ids /\ sent[task[t].id].proc = 1
        /\ task[u].pc = "done" /\ task[u].result = Body(task[u].id)
        /\ task[u].id \in Ids /\ sent[task[u].id].proc = 2

\* C5 Document sync idempotence (spawned transport): a request for a file whose
\* recorded version equals the host's version writes no updateOpen; the same
\* version of a file is opened on a process at most once unless the file was
\* closed on it in between; a request for a file that is neither open in the
\* host nor recorded writes no updateOpen and leaves the version map unchanged.
IsCallStep(t) == task[t].pc = "idle" /\ task'[t].pc # "idle"
WroteUpdateOpen ==
    requestId' = requestId + 1 /\ sent'[requestId'].cmd \in {"open", "reopen", "close"}
OpenedBefore(f, v, p) ==
    \E i \in 1..requestId :
        /\ sent[i].cmd \in {"open", "reopen"}
        /\ sent[i].file = f /\ sent[i].ver = v /\ sent[i].proc = p
        /\ ~\E c \in (i + 1)..requestId :
              /\ sent[c].proc = p
              /\ \/ sent[c].cmd = "closeAll"
                 \/ sent[c].cmd = "close" /\ sent[c].file = f

DocumentSyncIdempotence ==
    [][ \A t \in Tasks : (kind = "process" /\ IsCallStep(t)) =>
          LET f == task'[t].file IN
          /\ (documents[f] # 0 /\ openDocumentVersions[f] = documents[f]) =>
                ~WroteUpdateOpen
          /\ (documents[f] = 0 /\ openDocumentVersions[f] = 0) =>
                (~WroteUpdateOpen /\ openDocumentVersions' = openDocumentVersions)
          /\ (WroteUpdateOpen /\ sent'[requestId'].cmd = "open") =>
                ~OpenedBefore(f, sent'[requestId'].ver, sent'[requestId'].proc)
      ]_vars

\* C6 (as stated): for hover and document highlights on a supported file, a
\* non-empty answer of the sidecar (a hover with visible text, a non-empty list
\* of highlights) means the secondary client is never invoked for the request; an
\* empty or absent answer means it is invoked exactly once and the caller gets
\* its result, or undefined.
NonEmptyKinds == {"usable", "noText"}
FallbackOrdering ==
    \A t \in Tasks :
        /\ task[t].ans \in NonEmptyKinds => task[t].fb = 0
        /\ task[t].ans \in {"absent", "empty", "blank"} => task[t].fb = 1
        /\ task[t].gave # "" => task[t].fb = 1 /\ task[t].result = FallbackValue(task[t].gave)

\* C6 (amended): the secondary client is never invoked when the sidecar's
\* answer can be handed to the caller (a hover whose display string is not
\* empty after trimming, a non-empty list of highlights of a file whose text is
\* available) and the caller gets that answer; in every other case (absent,
\* failed, empty, a hover of blanks, highlights of a file whose text cannot be
\* had) it is invoked exactly once and the caller gets its result, or undefined
\* when it gives null or undefined or throws.
FallbackOrderingUsable ==
    \A t \in Tasks :
        /\ task[t].fb <= 1
        /\ task[t].ans = "usable" =>
                task[t].fb = 0 /\ task[t].pc = "done" /\ task[t].result = FromSidecar
        /\ task[t].ans \in {"absent", "empty", "blank", "noText"} =>
                task[t].fb = 1 /\ task[t].pc = "awaitFallback"
        /\ task[t].result = FromSidecar => task[t].fb = 0 /\ task[t].gave = ""
        /\ task[t].gave # "" =>
                /\ task[t].fb = 1
                /\ task[t].pc = "done"
                /\ task[t].result = FallbackValue(task[t].gave)
                /\ task[t].result \in {FromFallback, Undef}

\* one caller got the sidecar's answer while the secondary client is being
\* asked for another whose highlights could not be converted
FallbackOrderingWitness ==
    \E t, u \in Tasks :
        /\ task[t].pc = "done" /\ task[t].result = FromSidecar /\ task[t].fb = 0
        /\ task[u].pc = "awaitFallback" /\ task[u].ans = "noText" /\ task[u].fb = 1

\* C9: a waiter still registered (timeout > 0) when the first hover is called
\* is resolved true by that call, and every hover request in flight or
\* completed finds the client ready with no waiter left; awaitReadyForHover(0)
\* called while not ready returns false at once without registering a waiter
\* or a timer; and a call that has returned or finished never changes again.
IsFirstHoverStep == ~hoverReady /\ hoverReady'
HoverInFlight ==
    \E t \in Tasks : task[t].method = "textDocument/hover"
ReadinessWaiterRelease ==
    [][\A w \in Waiters :
        /\ w \in hoverReadyWaiters' => waiter'[w].pc = "waiting" /\ waiter'[w].tmo > 0
        /\ (w \in hoverReadyWaiters /\ IsFirstHoverStep) =>
                /\ waiter'[w].pc = "finished"
                /\ waiter'[w].result = "true"
                /\ waiter'[w].n = 1
        /\ HoverInFlight' => hoverReady' /\ hoverReadyWaiters' = {}
        /\ (waiter[w].pc = "idle" /\ waiter'[w].pc # "idle" /\ waiter'[w].tmo = 0
                /\ ~hoverReady) =>
                /\ waiter'[w].pc = "returned"
                /\ waiter'[w].result = "false"
                /\ w \notin hoverReadyWaiters'
                /\ w \notin waiterTimers'
        /\ waiter[w].pc \in {"returned", "finished"} => waiter'[w] = waiter[w]
      ]_vars

\* a registered waiter was released with true and a hover request is under way
ReadinessWaiterWitness ==
    \E w \in Waiters, t \in Tasks :
        /\ waiter[w].pc = "finished" /\ waiter[w].result = "true"
        /\ task[t].method = "textDocument/hover"

\* C10 (as stated): a second or later dispose call changes no state of the
\* client and sends nothing; and when a dispose call returns, the pending
\* table is empty and no request is still waiting.
ClientState ==
    <<requestId, requestHandlers, timers, listening, disposed, openDocumentVersions,
      tsserverProcess, startPromise, killed, tsgoProcess, tsgoRunning, connectionToTsgo,
      initPromise, listeners, hoverReady, hoverReadyWaiters, waiterTimers>>
IsDisposeCall(d) == disp[d].pc = "idle" /\ disp'[d].pc # "idle"
IsLaterDisposeCall ==
    \E d, e \in Disposers : IsDisposeCall(d) /\ disp[e].pc # "idle"
IsDisposeReturn == \E d \in Disposers : disp[d].pc # "done" /\ disp'[d].pc = "done"
NothingWaits ==
    /\ requestHandlers = {}
    /\ timers = {}
    /\ \A t \in Tasks : task[t].pc \notin {"awaitSync", "awaitReq", "awaitLsp", "awaitInit"}
ProbeFailed ==
    /\ startup.created
    /\ startup.preference = "auto"
    /\ startup.probe.threw \/ startup.probe.error \/ startup.probe.signal
            \/ startup.probe.status # "0"
AutoProbeFallback ==
    ProbeFailed =>
        /\ kind = "bridge"
        /\ startup.mode = "tsserver"
        /\ startup.tsserverFallback = "none"
        /\ forks = 0 /\ alive = {} /\ tsserverProcess = 0
        /\ tsgoSpawns = 0 /\ ~tsgoProcess /\ ~tsgoRunning
        /\ startup.serverInfo \in {<<>>, <<packageName, " [", "tsserver", "]">>}

\* the probe exited with status 1, the server has answered initialize and the
\* bridged client has sent a request
AutoProbeFallbackWitness ==
    /\ ProbeFailed
    /\ startup.probe.status = "1"
    /\ startup.serverInfo # <<>>
    /\ requestId > 0

\* C8: no preference or 'tsserver' constructs the bridged client (mode
\* 'tsserver') without a probe; 'tsgo-lsp' constructs the sidecar client (mode
\* 'tsgo-lsp') without a probe; 'auto' with a probe that exits with status 0
\* constructs the sidecar client; the mode of a client never changes.
SelectedByPreference ==
    startup.created =>
        /\ startup.preference \in {"undefined", "tsserver"} =>
                kind = "bridge" /\ startup.mode = "tsserver" /\ startup.probeRuns = 0
        /\ startup.preference = "tsgo-lsp" =>
                kind = "tsgo" /\ startup.mode = "tsgo-lsp" /\ startup.probeRuns = 0
        /\ (startup.preference = "auto" /\ ~ProbeFailed) =>
                kind = "tsgo" /\ startup.mode = "tsgo-lsp" /\ startup.probeRuns = 1
        /\ startup.mode = ModeOf(kind)
BackendSelection ==
    []SelectedByPreference
        /\ [][startup.created => (startup'.mode = startup.mode /\ kind' = kind)]_vars

\* the bridged client was selected by default and has been used and disposed
BackendSelectionWitness ==
    /\ startup.created
    /\ startup.preference = "undefined"
    /\ kind = "bridge"
    /\ requestId > 0
    /\ \E d \in Disposers : disp[d].pc = "done"

\* C11 Sync before request (spawned transport): a request that references
\* file f, issued while f is open in the host at version v, is written to a
\* process only after an updateOpen carrying version v of f has been written
\* to that same process.
IsRequestWrite(t) == task[t].pc # "awaitReq" /\ task'[t].pc = "awaitReq"
VersionAtIssue(t) ==
    IF task[t].pc = "syncDone" THEN task[t].cv ELSE documents[task'[t].file]
OpenWrittenTo(f, v, p) ==
    \E i \in 1..requestId :
        /\ sent[i].cmd \in {"open", "reopen"}
        /\ sent[i].file = f /\ sent[i].ver = v /\ sent[i].proc = p
SyncBeforeRequest ==
    [][\A t \in Tasks : (kind = "process" /\ IsRequestWrite(t)) =>
          (VersionAtIssue(t) # 0 =>
                OpenWrittenTo(task'[t].file, VersionAtIssue(t), sent'[task'[t].id].proc))
      ]_vars

\* C12 ensureStarted is idempotent: on the spawned transport at most one child
\* process is alive at any time and a process is forked only when none is
\* alive and no start is memoized; on the sidecar transport the process is
\* spawned at most once, only when no start was made before, and every caller
\* waiting for the start waits for that one start.
OneStartInFlight ==
    /\ Cardinality(alive) <= 1
    /\ tsgoSpawns <= 1
    /\ initPromise = "pending" => tsgoSpawns = 1
    /\ \A t \in Tasks : task[t].pc = "awaitInit" => initPromise = "pending"
SingleStart ==
    []OneStartInFlight
        /\ [][/\ forks' # forks =>
                    (forks' = forks + 1 /\ ~startPromise /\ alive = {} /\ startPromise')
              /\ tsgoSpawns' # tsgoSpawns =>
                    (tsgoSpawns' = tsgoSpawns + 1 /\ initPromise = "none"
                        /\ initPromise' = "pending")
             ]_vars

\* two callers wait for the one start of the sidecar
SingleStartWitness ==
    /\ tsgoSpawns = 1
    /\ initPromise = "pending"
    /\ \E t, u \in Tasks : t # u /\ task[t].pc = "awaitInit" /\ task[u].pc = "awaitInit"

\* C13 (as stated): on the spawned transport a request issued while the
\* channel is not connected (no process started yet, or the IPC channel of the
\* process absent) resolves null at once, registers no pending entry and arms
\* no timeout.
ResolvesNullAtOnce(t) ==
    /\ task'[t].pc = "done"
    /\ task'[t].result = Null
    /\ UNCHANGED <<requestId, requestHandlers, timers, sent>>
TransportUnavailable ==
    [][\A t \in Tasks :
          (kind = "process" /\ IsCallStep(t) /\ tsserverProcess \notin connected) =>
                ResolvesNullAtOnce(t)
      ]_vars

\* C13 (amended): a request first ensures the start (a process is forked
\* unless the client is disposed or a start is memoized); when after that there
\* is no process or its IPC channel is not connected, each write the request
\* attempts (the updateOpen, then the command) resolves null at once, registers
\* no pending entry and arms no timeout; when there is a connected process, the
\* write is registered with a timeout.
ReachesWrite(t) ==
    \/ IsCallStep(t)
    \/ task[t].pc = "syncDone" /\ task'[t].pc # "syncDone"
TransportUnavailableAfterStart ==
    [][\A t \in Tasks : (kind = "process" /\ ReachesWrite(t)) =>
          /\ (tsserverProcess' \notin connected' /\ task'[t].result # Rejected) =>
                ResolvesNullAtOnce(t)
          /\ tsserverProcess' \in connected' =>
                /\ requestId' = requestId + 1
                /\ requestId' \in requestHandlers' /\ requestId' \in timers'
                /\ task'[t].pc \in {"awaitSync", "awaitReq"}
                /\ task'[t].id = requestId'
      ]_vars

\* the channel of the running process closed: a request resolved null without
\* an identifier, while an earlier one is still pending
TransportUnavailableWitness ==
    /\ kind = "process"
    /\ ~disposed
    /\ tsserverProcess # 0
    /\ tsserverProcess \notin connected
    /\ \E t, u \in Tasks :
          /\ task[t].pc = "awaitReq" /\ task[t].id \in requestHandlers
          /\ task[u].pc = "done" /\ task[u].result = Null /\ task[u].id = 0

\* C15 Capability split: every call of a component-structure-aware method or
\* of getEncodedSemanticClassifications on the sidecar client, for a file of
\* any type, calls the secondary client exactly once, writes nothing to the
\* sidecar and starts no sidecar; the call then waits for the secondary client
\* only, and its result is what the secondary client gave; only a hover or a
\* document-highlight call is taken up without calling the secondary client.
CapabilitySplit ==
    [][\A t \in Tasks : kind = "tsgo" =>
            /\ (IsCallStep(t) /\ task'[t].method \in {ForwardKind(m) : m \in callFallbackMethods}) =>
                    /\ task'[t].pc = "awaitForward"
                    /\ task'[t].fb = 1
                    /\ goOut' = <<>>
                    /\ UNCHANGED <<tsgoSpawns, tsgoProcess, connectionToTsgo, initPromise,
                                   openDocumentVersions>>
            /\ (IsCallStep(t) /\ task'[t].fb = 0) => task'[t].pc \in {"awaitInit", "awaitLsp"}
            /\ task[t].pc = "awaitForward" =>
                    /\ task'[t].fb = 1
                    /\ task'[t].pc \in {"awaitForward", "done"}
                    /\ task'[t].pc = "done" =>
                          /\ goOut' = <<>>
                          /\ \E o \in FallbackOutcomes : task'[t].result = ForwardValue(o)
      ]_vars

\* a structure-aware call is with the secondary client and a semantic
\* classification call has returned its value, with no sidecar ever started
CapabilitySplitWitness ==
    /\ kind = "tsgo"
    /\ tsgoSpawns = 0 /\ initPromise = "none"
    /\ \E t, u \in Tasks :
          /\ task[t].pc = "awaitForward" /\ task[t].method = "structure"
          /\ task[u].pc = "done" /\ task[u].result = FromFallback /\ task[u].fb = 1
          /\ task[u].ans = "none" /\ task[u].gave = ""

\* C16 Sidecar handshake ordering: a textDocument/didOpen, didChange, didClose,
\* hover or documentHighlight message is written to the sidecar only when the
\* initialized notification has been written before it (the initialize request
\* having been answered), also when the host opens, changes or closes a
\* document while the start is in flight.
AfterHandshakeOnly ==
    {"textDocument/didOpen", "textDocument/didChange", "textDocument/didClose",
     "textDocument/hover", "textDocument/documentHighlight"}
HandshakeOrdering ==
    [][\A i \in DOMAIN goOut' :
          goOut'[i].m \in AfterHandshakeOnly =>
              \/ handshake
              \/ \E j \in 1..(i - 1) : goOut'[j].m = "initialized"
      ]_vars

\* C18 No backend failure becomes a rejection: whatever fails (the fork, the
\* child process, a timeout, the sidecar, the secondary client), no request
\* method of any client completes with a rejected promise.
NoRejectedResult ==
    \A t \in Tasks : task[t].result # Rejected

\* C19 Every request to the sidecar has its own timeout: when the sidecar does
\* not answer a hover or documentHighlight request, or the initialize request
\* it waits on, and dispose is not called, the caller's request still
\* completes eventually.
SidecarRequestCompletes ==
    \A t \in Tasks :
        (task[t].pc \in {"awaitInit", "awaitLsp"}) ~> (task[t].pc = "done")

\* C14 Hover readiness is one-way: no step (a waiter's timeout, a further
\* hover, the warmup, dispose) takes the ready flag from true back to false,
\* so it changes at most once, from false to true.
ReadinessOneWay ==
    [][hoverReady => hoverReady']_vars

\* the client became ready, a second hover was made and the client was
\* disposed after a waiter had timed out: it is still ready
ReadinessOneWayWitness ==
    /\ hoverReady
    /\ disposed
    /\ \A t \in Tasks : task[t].pc # "idle"
    /\ \E w \in Waiters : waiter[w].pc = "finished" /\ waiter[w].result = "false"

\* C17 Warmup is a shared single-shot task: however often ensureTsBackendWarmup
\* is called, warmupTsBackend runs at most once, warmup() of the client is
\* called at most once and primeOpenDocuments is entered at most once; every
\* caller gets the same task; and the task, once settled, and the outcome of
\* warmup(), once known, never change.
WarmupOnce ==
    /\ warm.runs <= 1 /\ warm.warmups <= 1 /\ warm.primes <= 1
    /\ \A c \in WarmCallers : warm.got[c] \in {0, 1}
    /\ (warm.task = "none") = (warm.runs = 0)
    /\ (\E c \in WarmCallers : warm.got[c] # 0) => warm.task # "none"
BackendStopped ==
    CASE kind = "bridge" -> ~listening
      [] kind = "process" ->
            /\ disposed
            /\ tsserverProcess = 0 /\ ~startPromise
            /\ alive \subseteq killed
      [] kind = "tsgo" ->
            /\ disposed
            /\ ~connectionToTsgo /\ ~tsgoProcess /\ ~tsgoRunning
            /\ fallbackDisposals # 0
      [] OTHER -> TRUE
ShutdownAfterDispose ==
    [][\A d \in Disposers :
          (d \notin startup.down /\ d \in startup'.down) =>
              /\ disp[d].pc = "done"
              /\ BackendStopped
              /\ UNCHANGED <<tsVars, goVars>>
      ]_vars

\* the spawned client's dispose waited for its close-all, then the server shut
\* down while the killed child had not exited yet
ShutdownAfterDisposeWitness ==
    /\ kind = "process"
    /\ startup.down # {}
    /\ \E i \in Ids : sent[i].cmd = "closeAll" /\ delivered[i] = 1
    /\ killed # {} /\ killed \subseteq alive

\* C21 Late response: a response whose identifier has no pending entry (its
\* request timed out, or was resolved by exit or dispose) is dropped: no
\* resolve callback is called, no entry is removed, no timer is cleared and no
\* caller is woken; nothing but the count of dropped responses changes.
LateResponseDropped ==
    [][lateResponses' # lateResponses =>
          UNCHANGED <<requestHandlers, timers, delivered, task, disp, sent, requestId,
                      openDocumentVersions, tsserverProcess, startPromise, alive,
                      connected, killed>>
      ]_vars

\* a response was dropped while another request is pending with its timer armed
LateResponseWitness ==
    /\ lateResponses > 0
    /\ \E i \in Ids : delivered[i] = 1 /\ task[1].id = i /\ task[1].result = Null
    /\ \E j \in requestHandlers : j \in timers /\ delivered[j] = 0

\* C22 Request identifiers: every request written gets the identifier one
\* above all identifiers issued before it, on the bridged and on the spawned
\* transport, and a crash and respawn does not reset the counter: what was
\* written under an identifier is never overwritten, and the identifiers
\* written to a later child are all above those written to an earlier one.
Issued == {i \in Ids : sent[i] # NoMsg}
IdentifiersIncrease ==
    [][/\ requestId' >= requestId
       /\ \A i \in Issued : sent'[i] = sent[i]
       /\ \A i \in Ids : (i \notin Issued /\ sent'[i] # NoMsg) =>
             /\ i = requestId + 1
             /\ i = requestId'
             /\ \A j \in Issued : j < i /\ sent[j].proc <= sent'[i].proc
      ]_vars
IdentifiersUnique ==
    /\ [](Issued = 1..requestId /\ requestHandlers \subseteq Issued)
    /\ IdentifiersIncrease

\* a request was written to the respawned child after one to the crashed child
IdentifiersUniqueWitness ==
    /\ kind = "process"
    /\ crashes = 1
    /\ \E i \in Ids, j \in Ids :
          /\ i < j
          /\ sent[i].cmd = "request" /\ sent[i].proc = 1
          /\ sent[j].cmd = "request" /\ sent[j].proc = 2
          /\ j \in requestHandlers

\* C23 No race on the version map: the record of a file is written in the step
\* that decides to notify, so no two calls are at the same time between writing
\* an opening updateOpen for the same version of a file to the same child and
\* recording it; on the sidecar the version written by a step is the version
\* recorded after it.
Syncing(t) ==
    /\ task[t].pc \in {"awaitSync", "syncDone"}
    /\ task[t].upd \in {"open", "reopen"}
SidecarRecordsAtOnce ==
    \A i \in 1..Len(goOut) :
        goOut[i].m \in {"textDocument/didOpen", "textDocument/didChange"} =>
            openDocumentVersions[goOut[i].file] = goOut[i].ver
NoVersionMapRace ==
    /\ kind = "process" =>
          \A t \in Tasks, u \in Tasks :
              (t # u /\ Syncing(t) /\ Syncing(u) /\ task[t].file = task[u].file) =>
                  \/ task[t].cv # task[u].cv
                  \/ sent[task[t].id].proc # sent[task[u].id].proc
    /\ kind = "tsgo" => SidecarRecordsAtOnce

\* C24 Replace-all on change: a sync of a document whose recorded version is not
\* the host's version writes one notification replacing the whole text at the
\* host's version (updateOpen closing and reopening the file on the spawned
\* transport, didChange on the sidecar), and when the sync is over the
\* recorded version is the version the document had when the sync started
\* (clients not yet disposed, syncs that do not reject).
ChangedSince(f) ==
    documents[f] # 0 /\ openDocumentVersions[f] \notin {0, documents[f]}
SpawnedReplacesAll ==
    \A t \in Tasks :
        /\ (/\ ~disposed /\ IsCallStep(t) /\ ChangedSince(task'[t].file)
            /\ task'[t].result # Rejected) =>
              /\ requestId' = requestId + 1
              /\ sent'[requestId'] = [cmd |-> "reopen", file |-> task'[t].file,
                                      ver |-> documents[task'[t].file],
                                      proc |-> tsserverProcess']
              /\ task'[t].pc = "awaitSync" /\ task'[t].cv = documents[task'[t].file]
        /\ (task[t].pc = "syncDone" /\ task[t].upd = "reopen" /\ task'[t].pc # "syncDone") =>
              openDocumentVersions'[task[t].file] = task[t].cv
SidecarReplacesAll ==
    \A f \in Files :
        (/\ documents[f] # 0 /\ documents'[f] \notin {0, documents[f]}
         /\ listeners /\ connectionToTsgo
         /\ openDocumentVersions[f] # 0) =>
            /\ goOut' = <<LspMsg("textDocument/didChange", f, documents'[f])>>
            /\ openDocumentVersions'[f] = documents'[f]
SidecarReplaceAllOnChange == [][kind = "tsgo" => SidecarReplacesAll]_vars
ReplaceAllOnChange ==
    [][/\ kind = "process" => SpawnedReplacesAll
       /\ kind = "tsgo" => SidecarReplacesAll]_vars

\* C25 Close: a recorded document that is closed in the host gets exactly one
\* close notification and its record is removed: on the sidecar in the step of
\* the host's close event, on the spawned transport by the next request for the
\* file, so that no two calls are closing the same file on the same child at
\* the same time; when the close is over the file has no record.
Closing(t) ==
    task[t].pc \in {"awaitSync", "syncDone"} /\ task[t].upd = "close"
SpawnedClosesOnce ==
    \A t \in Tasks, u \in Tasks :
        (t # u /\ Closing(t) /\ Closing(u) /\ task[t].file = task[u].file) =>
            sent[task[t].id].proc # sent[task[u].id].proc
SpawnedCloseRemoves ==
    \A t \in Tasks :
        (Closing(t) /\ task[t].pc = "syncDone" /\ task'[t].pc # "syncDone") =>
            openDocumentVersions'[task[t].file] = 0
SidecarCloses ==
    \A f \in Files :
        (/\ documents[f] # 0 /\ documents'[f] = 0
         /\ openDocumentVersions[f] # 0) =>
            /\ goOut' = <<LspMsg("textDocument/didClose", f, 0)>>
            /\ openDocumentVersions'[f] = 0
SidecarCloseOnce == [][kind = "tsgo" => SidecarCloses]_vars
CloseOnce ==
    /\ [](kind = "process" => SpawnedClosesOnce)
    /\ [][/\ kind = "process" => SpawnedCloseRemoves
          /\ kind = "tsgo" => SidecarCloses]_vars

\* C26 Only supported files reach the sidecar: every message written to the
\* sidecar that names a file names one with a supported extension and a file:
\* URI, only such files have a record in the sidecar's version map, and a hover
\* or documentHighlight call for any other file goes to the secondary client in
\* the same step, without writing to the sidecar and without starting it.
TakenBySidecar(f) == f.scheme = "file" /\ supportsTsgoFile(f.name)
FileShapes ==
    [scheme : {"file", "untitled"},
     name : {<<"a", "ts">>, <<"b", "vue">>, <<"c", "d", "ts">>, <<"A", "TS">>, <<"x">>}]
OnlySupportedWritten ==
    /\ \A i \in 1..Len(goOut) :
          goOut[i].file # NoFile => TakenBySidecar(goOut[i].file)
    /\ \A f \in Files : openDocumentVersions[f] # 0 => TakenBySidecar(f)
    /\ \A f \in FileShapes, cur \in 1..MaxVersion, tracked \in 0..MaxVersion :
          SyncNotes(TRUE, f, cur, tracked) # <<>> => TakenBySidecar(f)
OtherFilesHandedOn ==
    \A t \in Tasks :
        (/\ IsCallStep(t)
         /\ task'[t].method \in {"", "textDocument/hover", "textDocument/documentHighlight"}
         /\ task'[t].file = NoFile \/ ~TakenBySidecar(task'[t].file)
         /\ task'[t].ans = "none") =>
            /\ task'[t].pc = "awaitFallback" /\ task'[t].fb = 1
            /\ goOut' = <<>>
            /\ UNCHANGED <<sidecarStart, openDocumentVersions>>
SidecarSeesOnlySupported ==
    /\ [](kind = "tsgo" => OnlySupportedWritten)
    /\ [][kind = "tsgo" => OtherFilesHandedOn]_vars

\* with the sidecar running and a.ts recorded, a hover for the open b.vue waits
\* for the secondary client and b.vue has no record
SidecarSeesOnlySupportedWitness ==
    /\ kind = "tsgo"
    /\ connectionToTsgo /\ handshake
    /\ openDocumentVersions[FileTs] # 0
    /\ documents[FileVue] # 0 /\ openDocumentVersions[FileVue] = 0
    /\ \E t \in Tasks : task[t].pc = "awaitFallback" /\ task[t].fb = 1 /\ task[t].ans = "none"

\* C27 Waiters resolved once: a registered waiter is in the waiter set with its
\* timer armed until the first of three events resolves it: the transition to
\* ready (true), its own timer (false), dispose (false). From then on it is
\* neither in the set nor has a timer, and its result never changes.
WaiterRegistered(w) ==
    /\ waiter[w].pc = "waiting" <=> w \in hoverReadyWaiters
    /\ waiter[w].pc = "waiting" <=> w \in waiterTimers
    /\ waiter[w].n <= 1
    /\ waiter[w].pc = "finished" => waiter[w].n = 1
WaiterFirstEvent(w) ==
    /\ (waiter[w].pc = "waiting" /\ waiter'[w].pc # "waiting") =>
          /\ waiter'[w].pc = "finished"
          /\ waiter'[w].n = 1
          /\ w \notin hoverReadyWaiters' /\ w \notin waiterTimers'
          /\ \/ ~hoverReady /\ hoverReady' /\ waiter'[w].result = "true"
             \/ ~disposed /\ disposed' /\ hoverReady' = hoverReady
                    /\ waiter'[w].result = "false"
             \/ UNCHANGED <<hoverReady, disposed>> /\ waiter'[w].result = "false"
                    /\ hoverReadyWaiters' = hoverReadyWaiters \ {w}
    /\ (waiter[w].pc = "waiting" /\ ~hoverReady /\ hoverReady') =>
          waiter'[w].pc = "finished"
    /\ (waiter[w].pc = "waiting" /\ ~disposed /\ disposed') =>
          waiter'[w].pc = "finished"
    /\ waiter[w].pc = "finished" => waiter'[w] = waiter[w]
WaiterResolvedOnce ==
    /\ [](\A w \in Waiters : WaiterRegistered(w))
    /\ [][\A w \in Waiters : WaiterFirstEvent(w)]_vars

\* a waiter was resolved false by its own timer before the client became ready
WaiterResolvedOnceWitness ==
    \E w \in Waiters :
        /\ waiter[w].pc = "finished" /\ waiter[w].result = "false" /\ waiter[w].n = 1
        /\ hoverReady /\ ~disposed

\* C28 First hover makes ready: a step in which a hover is executed through the
\* sidecar client, be it a call of getQuickInfoAtPosition (for a file the
\* sidecar takes or not; the calls of this specification are all hovers) or a
\* probe of the warmup (primeTsgoHover, primeFallbackQuickInfo), leaves the
\* client ready with no waiter registered.
UserHoverStep ==
    \E t \in Tasks :
        /\ IsCallStep(t)
        /\ task'[t].pc \in {"awaitInit", "awaitLsp", "awaitFallback"}
ProbeHoverStep ==
    /\ warm.pc = "prime" /\ warm'.pc = "probing"
    /\ \E f \in Files : warm'.probe[f] = "pending"
UserHoverMakesReady ==
    [][UserHoverStep => (hoverReady' /\ hoverReadyWaiters' = {})]_vars
AnyHoverMakesReady ==
    [][(UserHoverStep \/ ProbeHoverStep) =>
          (hoverReady' /\ hoverReadyWaiters' = {})]_vars

\* C29 Ordered dispose of the spawned transport: the dispose call clears the
\* version map and, when files were recorded and the child's channel is open,
\* writes one updateOpen closing them all to the child, which it neither kills
\* nor forgets in that step, and resolves no pending request; while it waits
\* the close-all is pending with its timer armed; it goes on only when the
\* close-all has been resolved, by whatever, and then resolves every pending
\* request, calls kill() on the child if it still runs and clears the handle.
IsSpawnedDisposeCall(d) == disp[d].pc = "idle" /\ disp'[d].pc # "idle"
HasRecords == \E f \in Files : openDocumentVersions[f] # 0
DisposeCallOrdered(d) ==
    IsSpawnedDisposeCall(d) =>
        /\ disposed'
        /\ \A f \in Files : openDocumentVersions'[f] = 0
        /\ (HasRecords /\ tsserverProcess \in connected) =>
              /\ requestId' = requestId + 1
              /\ sent'[requestId'] = [cmd |-> "closeAll", file |-> NoFile, ver |-> 0,
                                      proc |-> tsserverProcess]
              /\ disp'[d] = [pc |-> "awaitClose", id |-> requestId']
              /\ requestHandlers' = requestHandlers \cup {requestId'}
              /\ UNCHANGED <<tsserverProcess, startPromise, killed, alive, delivered, task>>
        /\ ~(HasRecords /\ tsserverProcess \in connected) =>
              /\ requestId' = requestId
              /\ disp'[d].pc = "done"
DisposeFinishOrdered(d) ==
    (disp[d].pc # "done" /\ disp'[d].pc = "done") =>
        /\ disp[d].id # 0 => delivered[disp[d].id] = 1 /\ disp[d].pc = "closeDone"
        /\ requestHandlers' = {} /\ timers' = {}
        /\ \A t \in Tasks : task'[t].pc \notin {"awaitSync", "awaitReq"}
        /\ tsserverProcess \in alive => tsserverProcess \in killed'
        /\ tsserverProcess' = 0 /\ ~startPromise'
CloseAllPending(d) ==
    /\ disp[d].pc = "awaitClose" =>
          /\ disp[d].id \in requestHandlers /\ disp[d].id \in timers
          /\ delivered[disp[d].id] = 0
    /\ disp[d].pc = "closeDone" => ENABLED Process_disposeFinish(d)
DisposeOrdered ==
    /\ [](kind = "process" => \A d \in Disposers : CloseAllPending(d))
    /\ [][kind = "process" =>
            \A d \in Disposers : DisposeCallOrdered(d) /\ DisposeFinishOrdered(d)]_vars

\* a dispose that wrote the close-all has finished: the request that was
\* pending meanwhile was resolved undefined and the child, not yet gone, killed
DisposeOrderedWitness ==
    /\ kind = "process"
    /\ \E d \in Disposers :
          /\ disp[d].pc = "done" /\ disp[d].id # 0
          /\ sent[disp[d].id].cmd = "closeAll" /\ delivered[disp[d].id] = 1
    /\ \E t \in Tasks : task[t].pc = "done" /\ task[t].result = Undef
    /\ killed # {} /\ killed \subseteq alive
    /\ tsserverProcess = 0

\* C30 Warmup failures never become a startup failure: the server's warmup
\* task is never rejected; once warmupTsBackend has returned the task is
\* fulfilled, whether warmup() of the client threw, readiness came or the wait
\* for it ended with false; a failed warmup() leaves the function able to
\* return; and with a client of mode 'tsserver' the task is fulfilled by the
\* call itself, without warmup() or awaitReadyForHover being called and
\* without a sidecar being started.
TaskNotRejected ==
    /\ warm.task \in {"none", "pending", "settled"}
    /\ warm.srv = "done" => warm.task = "settled"
    /\ warm.task = "settled" => warm.srv = "done"
    /\ warm.outcome \in {"none", "true", "false"}
FailedWarmupReturns ==
    warm.srv = "awaitWarmup" /\ warm.outcome = "false" => ENABLED Server_afterWarmup
TsServerModeReturns ==
    startup.mode = "tsserver" =>
        /\ warm.task \in {"none", "settled"}
        /\ warm.warmups = 0 /\ warm.primes = 0
        /\ warm.pc = "idle" /\ warm.outcome = "none"
        /\ ServerWaiter \notin hoverReadyWaiters \cup waiterTimers
        /\ tsgoSpawns = 0 /\ initPromise = "none"
        /\ warm.runs > 0 => warm.task = "settled"
WarmupNeverRejects ==
    /\ TaskNotRejected
    /\ FailedWarmupReturns
    /\ TsServerModeReturns

\* warmup() of the client failed, the wait for readiness ended with false,
\* and the task is fulfilled all the same
WarmupNeverRejectsWitness ==
    /\ warm.task = "settled"
    /\ warm.outcome = "false"
    /\ warm.warmups = 1
    /\ ~hoverReady

\* ------------------------------------------------- the priming loop, scheduled
\* the steps of primeOpenDocuments that the event loop or a timer takes: the
\* wait for a first document ends (its timer, 852-875), a turn of the loop
\* begins, Promise.all continues once every probe has settled, and the
\* secondary client settles its probe (its requests carry a timer). The
\* sidecar's answer to a probing hover is not scheduled by the program.
WarmFairSpec ==
    /\ WarmSpec
    /\ WF_vars(Go_afterWaitForFirstOpenDocument)
    /\ WF_vars(Go_primeOpenDocumentsOnce)
    /\ WF_vars(\E late \in BOOLEAN : Go_afterPrimeOnce(late))
    /\ WF_vars(\E ans \in LspAnswers, ready \in BOOLEAN : Go_onProbeResult(FileVue, ans, ready))

\* C31 The priming loop terminates: once primeOpenDocuments has entered its
\* loop it returns, because both backends were ready in an attempt, the
\* deadline has passed or the client is disposed.
PrimingTerminates == (warm.pc \in {"prime", "probing"}) ~> (warm.pc = "done")

\* C32 A secondary client that cannot be spawned is absorbed at construction:
\* createTsBackendClient can always be called and returns a client whatever the
\* preference, the probe's result and whether the tsserver path resolves; a
\* sidecar client always holds a secondary client, the spawned one or the
\* bridged one, and when the path does not resolve the sidecar client is
\* constructed all the same, with the bridged client as its secondary.
ClientConstructed ==
    /\ kind = "none" =>
            \A p \in Preferences, result \in ProbeResults, resolvable \in BOOLEAN :
                ENABLED createTsBackendClient(p, result, resolvable)
    /\ startup.created = (kind # "none")
    /\ kind = "tsgo" => startup.tsserverFallback \in {"process", "bridge"}
    /\ kind = "bridge" => startup.tsserverFallback = "none"
UnresolvablePathAbsorbed ==
    \A p \in Preferences, result \in ProbeResults :
        createTsBackendClient(p, result, FALSE) =>
            /\ startup'.created
            /\ kind' = ClientKind(p, result)
            /\ kind' = "tsgo" => startup'.tsserverFallback = "bridge"
ResolvablePathSpawned ==
    \A p \in Preferences, result \in ProbeResults :
        createTsBackendClient(p, result, TRUE) =>
            (kind' = "tsgo" => startup'.tsserverFallback = "process")
SpawnFailureAbsorbed ==
    []ClientConstructed /\ [][UnresolvablePathAbsorbed /\ ResolvablePathSpawned]_vars

\* the probe let the sidecar client be chosen under preference auto, the
\* tsserver path did not resolve, and the client exists with a bridged secondary
SpawnFailureAbsorbedWitness ==
    /\ startup.created
    /\ kind = "tsgo"
    /\ startup.preference = "auto"
    /\ startup.tsserverFallback = "bridge"

\* C33 Project info on the sidecar client: when a tsconfig.json or a
\* jsconfig.json is found above the file, getProjectInfo returns at once the
\* candidate whose directory is the deepest of those that hold a config, and
\* the secondary client is not called; when none is found the secondary client
\* is asked, and its value is the result, or null when it gives null or
\* throws; without a secondary client the result is null.
Deepest(at) == CHOOSE d \in at : \A e \in at : e <= d
LocalConfigWins ==
    \A t \in Tasks, f \in Files, tsAt \in SUBSET Depths, jsAt \in SUBSET Depths :
        Go_getProjectInfo(t, f, tsAt, jsAt) =>
            IF tsAt \cup jsAt # {}
            THEN /\ task'[t].pc = "done"
                 /\ task'[t].result.k \in {"tsconfig.json", "jsconfig.json"}
                 /\ task'[t].result.of = Deepest(tsAt \cup jsAt)
                 /\ task'[t].result.of \in
                        (IF task'[t].result.k = "tsconfig.json" THEN tsAt ELSE jsAt)
                 /\ task'[t].fb = task[t].fb
            ELSE /\ task'[t].pc = "awaitProjectInfo"
                 /\ task'[t].fb = task[t].fb + 1
                 /\ task'[t].result = None
SecondaryAnswers ==
    \A t \in Tasks, o \in ProjectInfoOutcomes :
        Go_onProjectInfoResult(t, o) =>
            /\ task'[t].pc = "done"
            /\ task'[t].result = IF o = "value" THEN FromFallback ELSE Null
AbsentSecondaryNull ==
    \A o \in ProjectInfoOutcomes : callFallbackProjectInfo(FALSE, o) = Null
ProjectInfoResolution ==
    []AbsentSecondaryNull /\ [][LocalConfigWins /\ SecondaryAnswers]_vars

\* one call was answered by a jsconfig.json next to the file, the other found
\* no config and got null because the secondary client threw
ProjectInfoResolutionWitness ==
    /\ task[1].pc = "done"
    /\ task[1].result = [k |-> "jsconfig.json", of |-> MaxDepth]
    /\ task[1].fb = 0
    /\ task[2].pc = "done"
    /\ task[2].result = Null
    /\ task[2].gave = "throws"
    /\ task[2].fb = 1

\* C34 The secondary client of the sidecar client is disposed by dispose of
\* that client and by nothing else: its dispose has been called once for every
\* dispose call made so far, also when the sidecar was never started, and a
\* step that is not a dispose call (a request, an answer or a failure, a
\* timeout, a document event, the exit of the sidecar) never calls it.
DisposeCallsMade == Cardinality({d \in Disposers : disp[d].pc # "idle"})
SecondaryDisposedByDispose ==
    \/ fallbackDisposals' = fallbackDisposals
    \/ /\ fallbackDisposals' = fallbackDisposals + 1
       /\ \E d \in Disposers : disp[d].pc = "idle" /\ disp'[d].pc = "awaitFallback"
SecondaryOwnedByDispose ==
    [](fallbackDisposals = DisposeCallsMade) /\ [][SecondaryDisposedByDispose]_vars

\* dispose of a client whose sidecar was never started has returned, after
\* one dispose of the secondary client
SecondaryOwnedByDisposeWitness ==
    /\ tsgoSpawns = 0
    /\ initPromise = "none"
    /\ disp[1].pc = "done"
    /\ fallbackDisposals = 1

\* C35 A response for a pending request that reports failure, or that reports
\* success without a body, resolves the request with null and removes its
\* entry and its timer just as a response with a body does, the value apart;
\* a message that is not an object, not a response or has no numeric
\* request_seq changes nothing.
EntryResolved(id) ==
    /\ requestHandlers' = requestHandlers \ {id}
    /\ timers' = timers \ {id}
    /\ delivered' = [delivered EXCEPT ![id] = @ + 1]
    /\ \A t \in Tasks :
          task[t].pc \in {"awaitSync", "awaitReq"} /\ task[t].id = id
              => task'[t].pc = IF task[t].pc = "awaitSync" THEN "syncDone" ELSE "done"
ResolvedWith(id, v) ==
    \A t \in Tasks : task[t].pc = "awaitReq" /\ task[t].id = id => task'[t].result = v
ResponseResolves ==
    \A id \in requestHandlers, success \in BOOLEAN, hasBody \in BOOLEAN :
        Process_handleTsServerMessage(id, success, hasBody) =>
            /\ EntryResolved(id)
            /\ ResolvedWith(id, IF success /\ hasBody THEN Body(id) ELSE Null)
OtherMessageIgnored ==
    \A p \in 1..(MaxCrashes + 1), msg \in OtherMessages :
        Process_onOtherMessage(p, msg) => UNCHANGED vars
FailureResolvesNull == [][ResponseResolves /\ OtherMessageIgnored]_vars

\* a request was resolved with null by a response while another request is
\* still pending
FailureResolvesNullWitness ==
    /\ kind = "process"
    /\ task[1].pc = "done"
    /\ task[1].result = Null
    /\ task[1].id \in Ids
    /\ delivered[task[1].id] = 1
    /\ sent[task[1].id].proc \in alive
    /\ task[2].pc = "awaitReq"
    /\ task[2].id \in requestHandlers

\* C36 The sidecar is started again after it is lost: a request that goes to
\* the sidecar transport of a client that is not disposed, made after the
\* sidecar process has exited or after its start has failed, starts a sidecar
\* process.
SidecarLost == initPromise = "rejected" \/ (tsgoSpawns > 0 /\ ~tsgoRunning)
IsSidecarRequestStep(t) ==
    /\ IsCallStep(t)
    /\ task'[t].pc \in {"awaitInit", "awaitLsp"} \/ task'[t].ans = "absent"
SidecarRestarted ==
    [][\A t \in Tasks :
          IsSidecarRequestStep(t) /\ ~disposed /\ SidecarLost
              => tsgoRunning' /\ tsgoSpawns' = tsgoSpawns + 1]_vars

\* C37 Offsets and positions convert back and forth: for every text and every
\* offset from 0 to its length, positionToOffset of offsetToPosition of the
\* offset is the offset; an offset below 0 or beyond the length is converted
\* as 0 or as the length; positionToOffset always lies within the text; and
\* rangeToTextSpan never gives a negative length, also for a range whose end
\* lies before its start.
OffsetRoundTrip ==
    \A text \in LineTexts, o \in 0..MaxLineText :
        o <= Len(text) => positionToOffset(text, offsetToPosition(text, o)) = o
OffsetClamped ==
    \A text \in LineTexts, o \in Offsets :
        /\ o < 0 => offsetToPosition(text, o) = offsetToPosition(text, 0)
        /\ o > Len(text) => offsetToPosition(text, o) = offsetToPosition(text, Len(text))
PositionWithinText ==
    \A text \in LineTexts, line \in Offsets, character \in Offsets :
        positionToOffset(text, [line |-> line, character |-> character]) \in 0..Len(text)
SpanNotNegative ==
    \A text \in LineTexts, range \in Ranges :
        /\ rangeToTextSpan(text, range).length >= 0
        /\ rangeToTextSpan(text, range).start \in 0..Len(text)
SpansReturned ==
    \A t \in Tasks :
        task[t].result.k = "spans" =>
            task[t].result.of.length >= 0 /\ task[t].result.of.start >= 0
ConversionRoundTrip ==
    /\ OffsetRoundTrip
    /\ OffsetClamped
    /\ PositionWithinText
    /\ SpanNotNegative
    /\ SpansReturned

\* one request carried a position on the second line, and a call has returned
\* a span of length 0 that starts inside the text
ConversionRoundTripWitness ==
    /\ task[1].pc = "done"
    /\ task[1].result = [k |-> "spans", of |-> [start |-> 2, length |-> 0]]
    /\ task[2].pc = "awaitSpans"
    /\ Len(goOut) = 1
    /\ goOut[1].position = [line |-> 1, character |-> 1]

\* C38 The version map reflects the live process: on the spawned client,
\* whenever a file is recorded in openDocumentVersions and a child process is
\* running, an updateOpen that opens the file has been written to that
\* process.
OpenSentTo(f, p) ==
    \E i \in 1..requestId :
        sent[i].cmd \in {"open", "reopen"} /\ sent[i].file = f /\ sent[i].proc = p
VersionMapReflectsProcess ==
    kind = "process" =>
        \A f \in TsFiles :
            (openDocumentVersions[f] # 0 /\ tsserverProcess # 0 /\ tsserverProcess \in alive)
                => OpenSentTo(f, tsserverProcess)


\* ------------------------------------------------- C39
\* C39: whenever the set of readiness waiters is non-empty the client is
\* neither ready nor disposed, and a call of awaitReadyForHover made after
\* dispose registers no waiter: it returns true if the client had become
\* ready, false otherwise.
WaitersOnlyWhileUnready ==
    hoverReadyWaiters # {} => ~hoverReady /\ ~disposed
AwaitCalledAfterDispose(w) ==
    disposed /\ waiter[w].pc = "idle" /\ waiter'[w].pc # "idle"
LateAwaitNotRegistered ==
    \A w \in Waiters :
        AwaitCalledAfterDispose(w) =>
            /\ w \notin hoverReadyWaiters' /\ w \notin waiterTimers'
            /\ hoverReadyWaiters' = hoverReadyWaiters
            /\ waiter'[w].pc = "returned"
            /\ waiter'[w].result = IF hoverReady THEN "true" ELSE "false"
WaiterSetInvariant ==
    /\ []WaitersOnlyWhileUnready
    /\ [][LateAwaitNotRegistered]_vars

\* awaitReadyForHover with a positive timeout was called on a disposed client
\* that never became ready: it returned false at once and no waiter is
\* registered
WaiterSetInvariantWitness ==
    /\ disposed /\ ~hoverReady /\ hoverReadyWaiters = {} /\ waiterTimers = {}
    /\ \E w \in Waiters :
        /\ waiter[w].pc = "returned" /\ waiter[w].tmo > 0
        /\ waiter[w].result = "false"

\* ------------------------------------------------- C40
\* C40 (amended): once dispose has been called on a spawned transport no step
\* of the client spawns a backend process or writes to the sidecar; the sidecar
\* client holds no running sidecar from the dispose call on, and the
\* compiler-protocol client holds no process that was not killed once a
\* dispose has returned; a later request on the compiler-protocol client whose
\* handle is cleared resolves null at once, and a later request on the sidecar
\* client is never answered by the sidecar: it is handed to the secondary
\* client unless it is answered without a backend (getProjectInfo by the local
\* config lookup).
IsSpawnStep == forks' # forks \/ tsgoSpawns' # tsgoSpawns
DisposeReturned == \E d \in Disposers : disp[d].pc = "done"
NothingLeftRunning ==
    /\ (kind = "tsgo" /\ disposed) =>
            ~tsgoRunning /\ ~tsgoProcess /\ ~connectionToTsgo
    /\ (kind = "process" /\ DisposeReturned) =>
            alive \subseteq killed /\ tsserverProcess = 0 /\ ~startPromise
NoSpawnAfterDispose ==
    disposed => ~IsSpawnStep /\ goOut' = <<>>
LaterRequestInert(t) ==
    (disposed /\ IsCallStep(t)) =>
        /\ (kind = "process" /\ tsserverProcess = 0) => ResolvesNullAtOnce(t)
        /\ kind = "tsgo" =>
              \/ task'[t].pc = "done"
                    /\ task'[t].result.k \in {"tsconfig.json", "jsconfig.json"}
              \/ task'[t].pc \in {"awaitFallback", "awaitProjectInfo"} /\ task'[t].fb = 1
SidecarSilent(t) ==
    (disposed /\ task[t].pc # "done" /\ task'[t].pc = "done") =>
        task'[t].result # FromSidecar
DisposedInert ==
    /\ []NothingLeftRunning
    /\ [][/\ NoSpawnAfterDispose
          /\ \A t \in Tasks : LaterRequestInert(t) /\ SidecarSilent(t)]_vars

\* C40 as stated: after dispose no process is spawned, none is left running,
\* and every later request resolves empty.
LaterRequestEmpty(t) ==
    (disposed /\ IsCallStep(t) /\ task'[t].pc = "done") =>
        task'[t].result \in {Null, Undef}
DisposedResolvesEmpty ==
    /\ []NothingLeftRunning
    /\ [][/\ NoSpawnAfterDispose
          /\ \A t \in Tasks : LaterRequestEmpty(t)]_vars


\* the compiler-protocol client was disposed with a request in flight; the one
\* process it forked was killed with its channel still connected, and a
\* request made afterwards resolved null without an identifier or a fork
DisposedInertWitness ==
    /\ kind = "process" /\ disposed /\ DisposeReturned
    /\ forks = 1 /\ crashes = 0
    /\ killed = {1} /\ alive = {1} /\ connected = {1}
    /\ \E t, u \in Tasks :
        /\ task[u].pc = "done" /\ task[u].result = Undef /\ task[u].id # 0
        /\ task[t].pc = "done" /\ task[t].result = Null /\ task[t].id = 0

====
